---- MODULE Spec2Model ----
(***************************************************************************)
(* A model of the interactive terminal explorer of gh-pr-comments:         *)
(*   - the JSON explorer (internal/tui/json_explorer.go): tree, flat list, *)
(*     cursor, viewport, search;                                           *)
(*   - the PR selector (internal/tui/pr_selector.go);                      *)
(*   - the unified flow state machine and its prefetch worker pool         *)
(*     (internal/tui/unified_flow.go).                                     *)
(* Strings are sequences of one-character strings.                         *)
(***************************************************************************)
EXTENDS Integers, Sequences, FiniteSets, TLC

VARIABLES
    state,          \* UnifiedFlowModel.state
    prSelector,     \* UnifiedFlowModel.prSelector
    jsonExplorer,   \* UnifiedFlowModel.jsonExplorer
    selectedPR,     \* UnifiedFlowModel.selectedPR (NoPR = nil)
    jsonData,       \* UnifiedFlowModel.jsonData (NoData = nil)
    err,            \* UnifiedFlowModel.err (NoErr = nil)
    width,          \* UnifiedFlowModel.width
    height,         \* UnifiedFlowModel.height
    allowBack,      \* UnifiedFlowModel.allowBack
    altScreenActive,\* UnifiedFlowModel.altScreenActive
    prefetchConfig, \* UnifiedFlowModel.prefetchConfig (NoConfig = nil)
    prefetchCancel, \* UnifiedFlowModel.prefetchCancel is not nil
    returned,       \* what RunUnifiedFlow / RunUnifiedFlowWithPrefetch returned
    ctxDone,        \* config.Ctx of the prefetch command is done
    groupCtxDone,   \* groupCtx of the errgroup is done
    groupErr,       \* first non-nil error returned by a worker
    spawned,        \* number of prefetchGroup.Go calls made so far
    pc,             \* position of every worker goroutine
    sem,            \* number of tokens held in the sem channel
    results,        \* the results slice of startPrefetchCmd
    cmdPc,          \* position of the startPrefetchCmd closure
    outbox          \* message returned by the command, not yet delivered

flowVars == <<state, prSelector, jsonExplorer, selectedPR, jsonData, err,
              width, height, allowBack, altScreenActive, prefetchConfig,
              prefetchCancel>>

poolVars == <<ctxDone, groupCtxDone, groupErr, spawned, pc, sem, results,
              cmdPc, outbox>>

vars == <<flowVars, returned, poolVars>>

----------------------------------------------------------------------------
(* Integer and sequence helpers                                            *)

Min(a, b) == IF a < b THEN a ELSE b

Max(a, b) == IF a > b THEN a ELSE b

Range(s) == {s[i] : i \in 1..Len(s)}

\* strings.Repeat / concatenation over a sequence of sequences
RECURSIVE Concat(_)
Concat(ss) == IF ss = <<>> THEN <<>> ELSE Head(ss) \o Concat(Tail(ss))

RECURSIVE Join(_, _)
Join(ss, sep) ==
    IF ss = <<>> THEN <<>>
    ELSE IF Len(ss) = 1 THEN ss[1]
    ELSE ss[1] \o sep \o Join(Tail(ss), sep)

UpperToLower == [c \in {"A", "B", "C", "N", "U"} |->
                   CASE c = "A" -> "a" [] c = "B" -> "b" [] c = "C" -> "c"
                     [] c = "N" -> "n" [] c = "U" -> "u"]

\* strings.ToLower
ToLower(s) == [i \in 1..Len(s) |->
                 IF s[i] \in DOMAIN UpperToLower THEN UpperToLower[s[i]] ELSE s[i]]

\* strings.Contains
Contains(s, sub) ==
    \E i \in 0..(Len(s) - Len(sub)) :
        \A j \in 1..Len(sub) : s[i + j] = sub[j]

----------------------------------------------------------------------------
(* Decoded JSON values (the result of json.Unmarshal into interface{}).    *)
(* An object lists its members in the order the map iteration of buildTree *)
(* yields them.                                                            *)

JStr(s) == [t |-> "string", s |-> s]

JNum(s) == [t |-> "number", s |-> s]

JBool(b) == [t |-> "bool", s |-> IF b THEN <<"t", "r", "u", "e">> ELSE <<"f", "a", "l", "s", "e">>]

JNull == [t |-> "null"]

JArr(items) == [t |-> "array", items |-> items]

JObj(kv) == [t |-> "object", kv |-> kv]

\* the characters of the modelled strings in byte order (the order of the
\* key sort of fmt)
CharOrder ==
    <<"\t", "\n", " ", "!", "#", "$", "%", "&", "(", ")", "*",
      "+", ",", "-", ".", "/", "0", "1", "2", "3", "4", "5", "6", "7",
      "8", "9", ":", ";", "<", "=", ">", "?", "@", "A", "B", "C", "D",
      "E", "F", "G", "H", "I", "J", "K", "L", "M", "N", "O", "P", "Q",
      "R", "S", "T", "U", "V", "W", "X", "Y", "Z", "[", "]", "^", "_",
      "a", "b", "c", "d", "e", "f", "g", "h", "i", "j", "k", "l",
      "m", "n", "o", "p", "q", "r", "s", "t", "u", "v", "w", "x", "y",
      "z", "{", "|", "}", "~">>

CharRank(c) == CHOOSE i \in 1..Len(CharOrder) : CharOrder[i] = c

RECURSIVE StrLess(_, _)
StrLess(a, b) ==
    IF b = <<>> THEN FALSE
    ELSE IF a = <<>> THEN TRUE
    ELSE IF a[1] = b[1] THEN StrLess(Tail(a), Tail(b))
    ELSE CharRank(a[1]) < CharRank(b[1])

\* members of an object sorted by key, as fmt prints a map
RECURSIVE SortedKV(_)
SortedKV(kv) ==
    IF kv = <<>> THEN <<>>
    ELSE LET least == CHOOSE i \in 1..Len(kv) :
                         \A j \in 1..Len(kv) : j = i \/ ~StrLess(kv[j][1], kv[i][1])
             rest == [j \in 1..(Len(kv) - 1) |-> IF j < least THEN kv[j] ELSE kv[j + 1]]
         IN <<kv[least]>> \o SortedKV(rest)

\* fmt.Sprintf("%v", value)
RECURSIVE ValueStr(_)
ValueStr(v) ==
    CASE v.t = "string" -> v.s
      [] v.t = "number" -> v.s
      [] v.t = "bool" -> v.s
      [] v.t = "null" -> <<"<", "n", "i", "l", ">">>
      [] v.t = "array" ->
            <<"[">> \o Join([i \in 1..Len(v.items) |-> ValueStr(v.items[i])], <<" ">>) \o <<"]">>
      [] v.t = "object" ->
            LET kv == SortedKV(v.kv)
            IN <<"m", "a", "p", "[">>
               \o Join([i \in 1..Len(kv) |-> kv[i][1] \o <<":">> \o ValueStr(kv[i][2])], <<" ">>)
               \o <<"]">>

\* number of members or elements of a container value
ChildCount(v) ==
    CASE v.t = "object" -> Len(v.kv)
      [] v.t = "array" -> Len(v.items)
      [] OTHER -> 0

Digits == <<"0", "1", "2", "3", "4", "5", "6", "7", "8", "9">>

\* fmt.Sprintf("[%d]", i) for the indexes the documents use
IndexKey(i) == <<"[", Digits[i + 1], "]">>

\* key and value of the k-th child (1-based) in iteration order
ChildKey(v, k) == IF v.t = "object" THEN v.kv[k][1] ELSE IndexKey(k - 1)

ChildValue(v, k) == IF v.t = "object" THEN v.kv[k][2] ELSE v.items[k]

----------------------------------------------------------------------------
(* The tree: an arena of JSONNode records; a node is named by its position *)
(* in the arena, 0 is the nil pointer, 1 is the root.                      *)

\* the node with Expanded: depth < 3
NewNode_ThreeLevels(key, value, parent, depth) ==
    [Key |-> key, Value |-> value, Type |-> value.t, Children |-> <<>>,
     Parent |-> parent, Depth |-> depth,
     Expanded |-> depth < 3,
     Index |-> 0, LineNumber |-> 0, Matches |-> FALSE,
     PhysicalLines |-> 0, PhysicalOffset |-> 0]

NewNode(key, value, parent, depth) ==
    [Key |-> key, Value |-> value, Type |-> value.t, Children |-> <<>>,
     Parent |-> parent, Depth |-> depth,
     Expanded |-> depth < 2,
     Index |-> 0, LineNumber |-> 0, Matches |-> FALSE,
     PhysicalLines |-> 0, PhysicalOffset |-> 0]

\* buildTree: appends the node and then its subtree to the arena
RECURSIVE buildTree(_, _, _, _, _)
RECURSIVE buildChildren(_, _, _, _)
buildTree(key, value, parent, depth, arena) ==
    LET id == Len(arena) + 1
        withNode == Append(arena, NewNode(key, value, parent, depth))
    IN buildChildren(id, 1, depth, withNode)

buildChildren(id, k, depth, arena) ==
    LET value == arena[id].Value
    IN IF k > ChildCount(value) THEN arena
       ELSE LET childId == Len(arena) + 1
                built == buildTree(ChildKey(value, k), ChildValue(value, k), id, depth + 1, arena)
                linked == [built EXCEPT ![id].Children = Append(@, childId)]
            IN buildChildren(id, k + 1, depth, linked)

\* flattenTree: the traversal order, as node names
RECURSIVE traverse(_, _)
RECURSIVE traverseChildren(_, _, _)
\* the traversal without the test of node.Expanded
traverse_IgnoresExpanded(tree, node) ==
    <<node>> \o (IF Len(tree[node].Children) > 0
                 THEN traverseChildren(tree, tree[node].Children, 1)
                 ELSE <<>>)

traverse(tree, node) ==
    <<node>> \o (IF tree[node].Expanded /\ Len(tree[node].Children) > 0
                 THEN traverseChildren(tree, tree[node].Children, 1)
                 ELSE <<>>)

\* the loop over node.Children run from the last child to the first
traverseChildren_Reversed(tree, children, k) ==
    IF k > Len(children) THEN <<>>
    ELSE traverseChildren(tree, children, k + 1) \o traverse(tree, children[k])

traverseChildren(tree, children, k) ==
    IF k > Len(children) THEN <<>>
    ELSE traverse(tree, children[k]) \o traverseChildren(tree, children, k + 1)

flattenTree(tree) == traverse(tree, 1)

\* flattenTree also stamps Index and LineNumber on every node it visits
flattenIndex(tree) ==
    LET flat == flattenTree(tree)
    IN [n \in 1..Len(tree) |->
          IF n \in Range(flat)
          THEN LET i == CHOOSE j \in 1..Len(flat) : flat[j] = n
               IN [tree[n] EXCEPT !.Index = i - 1, !.LineNumber = i]
          ELSE tree[n]]

----------------------------------------------------------------------------
(* wordwrap.String of muesli/reflow (limit > 0, KeepNewlines, breakpoint   *)
(* '-'), and wrapString on top of it.                                      *)

IsSpace(c) == c \in {" ", "\t"}

NewWordWrap == [buf |-> <<>>, space |-> <<>>, word |-> <<>>, lineLen |-> 0]

addSpace(w) == [w EXCEPT !.lineLen = @ + Len(w.space), !.buf = @ \o w.space, !.space = <<>>]

addWord(w) ==
    IF Len(w.word) > 0
    THEN LET a == addSpace(w)
         IN [a EXCEPT !.lineLen = @ + Len(w.word), !.buf = @ \o w.word, !.word = <<>>]
    ELSE w

addNewLine(w) == [w EXCEPT !.buf = Append(@, "\n"), !.lineLen = 0, !.space = <<>>]

\* one iteration of the loop of WordWrap.Write
WordWrapRune(w, c, limit) ==
    IF c = "\n"
    THEN LET kept == IF Len(w.word) = 0
                     THEN IF w.lineLen + Len(w.space) > limit
                          THEN [w EXCEPT !.lineLen = 0, !.space = <<>>]
                          ELSE [w EXCEPT !.buf = @ \o w.space, !.space = <<>>]
                     ELSE w
         IN addNewLine(addWord(kept))
    ELSE IF IsSpace(c)
    THEN [addWord(w) EXCEPT !.space = Append(@, c)]
    ELSE IF c = "-"
    THEN [addWord(addSpace(w)) EXCEPT !.buf = Append(@, c)]
    ELSE LET grown == [w EXCEPT !.word = Append(@, c)]
         IN IF grown.lineLen + Len(grown.space) + Len(grown.word) > limit
               /\ Len(grown.word) < limit
            THEN addNewLine(grown)
            ELSE grown

RECURSIVE WordWrapWrite(_, _, _)
WordWrapWrite(w, s, limit) ==
    IF s = <<>> THEN w
    ELSE LET written == WordWrapRune(w, Head(s), limit)
         IN \* the test evaluates the writer before the next rune is read
            IF written.lineLen >= 0 THEN WordWrapWrite(written, Tail(s), limit)
            ELSE written

\* wordwrap.String: Write, then Close (which only flushes the last word)
WordWrapString(s, limit) == addWord(WordWrapWrite(NewWordWrap, s, limit)).buf

\* strings.Split(s, "\n")
RECURSIVE SplitLines(_)
SplitLines(s) ==
    IF \A i \in 1..Len(s) : s[i] # "\n" THEN <<s>>
    ELSE LET k == CHOOSE i \in 1..Len(s) : s[i] = "\n" /\ \A j \in 1..(i - 1) : s[j] # "\n"
         IN <<SubSeq(s, 1, k - 1)>> \o SplitLines(SubSeq(s, k + 1, Len(s)))

\* len(s) - len(strings.TrimLeft(s, " \t"))
LeadingBlanks(s) ==
    IF \A i \in 1..Len(s) : IsSpace(s[i]) THEN Len(s)
    ELSE (CHOOSE i \in 1..Len(s) : ~IsSpace(s[i]) /\ \A j \in 1..(i - 1) : IsSpace(s[j])) - 1

\* len(s) - len(strings.TrimRight(s, " \t"))
TrailingBlanks(s) ==
    IF \A i \in 1..Len(s) : IsSpace(s[i]) THEN Len(s)
    ELSE Len(s) - (CHOOSE i \in 1..Len(s) : ~IsSpace(s[i]) /\ \A j \in (i + 1)..Len(s) : IsSpace(s[j]))

\* the part of wrapString after strings.Split: the blanks wordwrap trimmed
\* at both ends are put back
restoreBlanks(s, w, lines) ==
    LET originalLeading == LeadingBlanks(s)
        originalTrailing == TrailingBlanks(s)
        actualLeading == LeadingBlanks(lines[1])
        missingSpaces == SubSeq(s, 1, originalLeading - actualLeading)
        restoreLead == originalLeading > 0 /\ actualLeading < originalLeading
        cannotFit == restoreLead /\ Len(missingSpaces) + Len(lines[1]) >= w
        led == IF restoreLead THEN [lines EXCEPT ![1] = missingSpaces \o @] ELSE lines
        lastLine == led[Len(led)]
        actualTrailing == TrailingBlanks(lastLine)
        suffix == SubSeq(s, Len(s) - originalTrailing + actualTrailing + 1, Len(s))
    IN IF cannotFit THEN <<s>>
       ELSE IF originalTrailing > 0 /\ actualTrailing < originalTrailing
       THEN [led EXCEPT ![Len(led)] = lastLine \o suffix]
       ELSE led

wrapString(s, w) ==
    IF w <= 0 THEN <<s>> ELSE restoreBlanks(s, w, SplitLines(WordWrapString(s, w)))

----------------------------------------------------------------------------
(* bubbles/viewport: only the row count of the content matters here.       *)

\* viewport.New(width, height)
NewViewport(w, h) == [Width |-> w, Height |-> h, YOffset |-> 0, lines |-> 0]

maxYOffset(vp) == Max(0, vp.lines - vp.Height)

clamp(v, low, high) ==
    IF high < low THEN Min(low, Max(high, v)) ELSE Min(high, Max(low, v))

SetYOffset(vp, n) == [vp EXCEPT !.YOffset = clamp(n, 0, maxYOffset(vp))]

GotoTop(vp) == IF vp.YOffset <= 0 THEN vp ELSE SetYOffset(vp, 0)

GotoBottom(vp) == SetYOffset(vp, maxYOffset(vp))

\* SetContent with a content of n rows (n = len(strings.Split(content, "\n")))
SetContent(vp, n) ==
    LET set == [vp EXCEPT !.lines = n]
    IN IF set.YOffset > n - 1 THEN GotoBottom(set) ELSE set

----------------------------------------------------------------------------
(* The JSON explorer                                                       *)

NoData == [kind |-> "nil"]

\* a payload of valid JSON text that decodes to value v
JSONBytes(v) == [kind |-> "json", value |-> v]

MalformedBytes == [kind |-> "malformed"]

EmptyBytes == [kind |-> "empty"]

\* json.Unmarshal(jsonData, &data)
Unmarshal(data) ==
    IF data.kind = "json" THEN [err |-> "", data |-> data.value]
    ELSE [err |-> "invalid JSON", data |-> JNull]

\* JSONExplorerModel{}
ZeroExplorer ==
    [viewport |-> NewViewport(0, 0), searchInput |-> [value |-> <<>>, pos |-> 0], content |-> NoData,
     tree |-> <<>>, flatNodes |-> <<>>, cursor |-> 0, searchMode |-> FALSE,
     searchQuery |-> <<>>, filterActive |-> FALSE, width |-> 0, height |-> 0,
     quitting |-> FALSE, panicked |-> FALSE]

RECURSIVE hasMatchingChild(_, _)
hasMatchingChild(tree, node) ==
    \E k \in 1..Len(tree[node].Children) :
        LET child == tree[node].Children[k]
        IN tree[child].Matches \/ hasMatchingChild(tree, child)

\* the filter test at the head of the loop of renderTree
Rendered(m, node) ==
    ~(m.filterActive /\ ~m.tree[node].Matches /\ ~hasMatchingChild(m.tree, node))

minValueWidth == 20

\* len(renderValue(node, selected, prefixWidth)): the rows of the value
renderValueLines(m, node, prefixWidth) ==
    IF m.tree[node].Type = "string"
    THEN LET availableWidth == m.width - prefixWidth - 4
         IN Len(wrapString(ValueStr(m.tree[node].Value),
                           IF availableWidth < minValueWidth THEN minValueWidth ELSE availableWidth))
    ELSE 1

prefixWidthOf(n) ==
    2 * n.Depth + 2 + 2 + (IF n.Key # <<>> THEN Len(n.Key) + 2 ELSE 0)

\* renderTree from flat entry i on: the tree with PhysicalOffset and
\* PhysicalLines recorded, and the number of rows written
RECURSIVE renderFrom(_, _, _, _)
RECURSIVE renderNode(_, _, _, _, _)
renderFrom(m, tree, i, physicalOffset) ==
    IF i > Len(m.flatNodes) THEN [tree |-> tree, rows |-> physicalOffset]
    ELSE IF ~Rendered(m, m.flatNodes[i]) THEN renderFrom(m, tree, i + 1, physicalOffset)
    ELSE renderNode(m, tree, i, physicalOffset,
                    Max(1, renderValueLines(m, m.flatNodes[i],
                                            prefixWidthOf(tree[m.flatNodes[i]]))))

\* the body of the loop with physicalOffset++ for physicalOffset += lineCount
renderNode_CountsEntries(m, tree, i, physicalOffset, lineCount) ==
    renderFrom(m, [tree EXCEPT ![m.flatNodes[i]].PhysicalOffset = physicalOffset,
                               ![m.flatNodes[i]].PhysicalLines = lineCount],
               i + 1, physicalOffset + 1)

\* the body of the loop of renderTree for flat entry i of lineCount rows
renderNode(m, tree, i, physicalOffset, lineCount) ==
    renderFrom(m, [tree EXCEPT ![m.flatNodes[i]].PhysicalOffset = physicalOffset,
                               ![m.flatNodes[i]].PhysicalLines = lineCount],
               i + 1, physicalOffset + lineCount)

renderTree(m) == renderFrom(m, m.tree, 1, 0)

\* m.viewport.SetContent(m.renderTree()): every row ends with "\n", so the
\* split content has one more (empty) row
ShowRendered(m, r) ==
    [m EXCEPT !.tree = r.tree, !.viewport = SetContent(m.viewport, r.rows + 1)]

SetContentRendered(m) == ShowRendered(m, renderTree(m))

defaultViewportWidth == 100

defaultViewportHeight == 30

\* NewJSONExplorerModel for a payload that decodes
NewJSONExplorerModel(data) ==
    LET built == buildTree(<<>>, Unmarshal(data).data, 0, 0, <<>>)
        model == [ZeroExplorer EXCEPT
                    !.viewport = NewViewport(defaultViewportWidth, defaultViewportHeight),
                    !.content = data,
                    !.tree = flattenIndex(built),
                    !.flatNodes = flattenTree(built),
                    !.cursor = 0]
    IN SetContentRendered(model)

\* m.flatNodes = flattenTree(m.tree)
Reflatten(m) == [m EXCEPT !.tree = flattenIndex(m.tree), !.flatNodes = flattenTree(m.tree)]

InRange(m, i) == i >= 0 /\ i < Len(m.flatNodes)

ensureCursorVisible(m) ==
    IF m.cursor < 0 \/ m.cursor >= Len(m.flatNodes) THEN m
    ELSE LET cursorNode == m.tree[m.flatNodes[m.cursor + 1]]
             cursorY == cursorNode.PhysicalOffset
             up == IF cursorY < m.viewport.YOffset THEN SetYOffset(m.viewport, cursorY) ELSE m.viewport
             cursorBottom == cursorY + cursorNode.PhysicalLines - 1
             viewportBottom == up.YOffset + up.Height - 1
             newOffset == cursorBottom - up.Height + 1
         IN [m EXCEPT !.viewport =
                IF cursorBottom > viewportBottom
                THEN SetYOffset(up, IF newOffset < 0 THEN 0 ELSE newOffset)
                ELSE up]

\* Go's integer division truncates toward zero
GoDiv(a, b) == IF a >= 0 THEN a \div b ELSE -((-a) \div b)

\* DefaultKeyMap
keyMap ==
    [Up |-> {"up", "k"}, Down |-> {"down", "j"},
     PageUp |-> {"pgup", "ctrl+b"}, PageDown |-> {"pgdown", "ctrl+f"},
     HalfPageUp |-> {"ctrl+u"}, HalfPageDown |-> {"ctrl+d"},
     GotoTop |-> {"g", "home"}, GotoBottom |-> {"G", "end"},
     Expand |-> {"right", "l", "enter"}, Collapse |-> {"left", "h"},
     ExpandAll |-> {"E"}, CollapseAll |-> {"C"}, Search |-> {"/"},
     NextMatch |-> {"n"}, PrevMatch |-> {"N"}, ClearSearch |-> {"esc"},
     Copy |-> {"y", "c"}, OpenURL |-> {"o"}, Quit |-> {"q", "ctrl+c"},
     Help |-> {"?"}]

\* the keys that carry one printable character
RuneKeys == {"a", "b", "c", "k", "j", "g", "G", "l", "h", "E", "C", "/", "n",
             "N", "y", "o", "q", "?", "u", "x"}

searchCharLimit == 100

\* textinput.Model.Update for a key message, the input being focused
TextInputUpdate(ti, k) ==
    LET v == ti.value
        p == ti.pos
    IN CASE k \in RuneKeys ->
              IF Len(v) < searchCharLimit
              THEN [value |-> SubSeq(v, 1, p) \o <<k>> \o SubSeq(v, p + 1, Len(v)), pos |-> p + 1]
              ELSE ti
         [] k \in {"backspace", "ctrl+h"} ->
              IF p > 0
              THEN [value |-> SubSeq(v, 1, p - 1) \o SubSeq(v, p + 1, Len(v)), pos |-> p - 1]
              ELSE ti
         [] k \in {"delete", "ctrl+d"} ->
              IF p < Len(v)
              THEN [value |-> SubSeq(v, 1, p) \o SubSeq(v, p + 2, Len(v)), pos |-> p]
              ELSE ti
         [] k \in {"left", "ctrl+b"} -> [ti EXCEPT !.pos = Max(0, p - 1)]
         [] k \in {"right", "ctrl+f"} -> [ti EXCEPT !.pos = Min(Len(v), p + 1)]
         [] k \in {"home", "ctrl+a"} -> [ti EXCEPT !.pos = 0]
         [] k \in {"end", "ctrl+e"} -> [ti EXCEPT !.pos = Len(v)]
         [] k = "ctrl+u" -> [value |-> SubSeq(v, p + 1, Len(v)), pos |-> 0]
         [] k = "ctrl+k" -> [value |-> SubSeq(v, 1, p), pos |-> p]
         [] OTHER -> ti

\* the test of one node in applySearch
MatchesQuery(n, query) ==
    query # <<>> /\ (Contains(ToLower(n.Key), query)
                     \/ Contains(ToLower(ValueStr(n.Value)), query))

\* applySearch: re-marks the nodes of the flat list only
applySearch(m) ==
    LET query == ToLower(m.searchQuery)
    IN [m EXCEPT !.tree =
          [n \in 1..Len(m.tree) |->
             IF n \in Range(m.flatNodes)
             THEN [m.tree[n] EXCEPT !.Matches = MatchesQuery(m.tree[n], query)]
             ELSE m.tree[n]]]

FlatMatches(m, i) == m.tree[m.flatNodes[i + 1]].Matches

Panic(m) == [m EXCEPT !.panicked = TRUE]

\* findNextMatch; an index outside the flat list is a run-time panic
findNextMatch(m) ==
    LET len == Len(m.flatNodes)
        after == {i \in (m.cursor + 1)..(len - 1) : i >= 0 /\ FlatMatches(m, i)}
        before == {i \in 0..Min(m.cursor, len - 1) : FlatMatches(m, i)}
    IN IF m.cursor + 1 < 0 THEN Panic(m)
       ELSE IF after # {} THEN [m EXCEPT !.cursor = CHOOSE i \in after : \A j \in after : i <= j]
       ELSE IF before # {} THEN [m EXCEPT !.cursor = CHOOSE i \in before : \A j \in before : i <= j]
       ELSE IF m.cursor >= len THEN Panic(m)
       ELSE m

\* findPrevMatch without the second loop (no wrap around)
findPrevMatch_NoWrap(m) ==
    LET len == Len(m.flatNodes)
        before == {i \in 0..(m.cursor - 1) : i < len /\ FlatMatches(m, i)}
    IN IF m.cursor - 1 >= len THEN Panic(m)
       ELSE IF before # {} THEN [m EXCEPT !.cursor = CHOOSE i \in before : \A j \in before : i >= j]
       ELSE m

\* findPrevMatch
findPrevMatch(m) ==
    LET len == Len(m.flatNodes)
        before == {i \in 0..(m.cursor - 1) : i < len /\ FlatMatches(m, i)}
        after == {i \in Max(m.cursor, 0)..(len - 1) : FlatMatches(m, i)}
    IN IF m.cursor - 1 >= len THEN Panic(m)
       ELSE IF before # {} THEN [m EXCEPT !.cursor = CHOOSE i \in before : \A j \in before : i >= j]
       ELSE IF after # {} THEN [m EXCEPT !.cursor = CHOOSE i \in after : \A j \in after : i >= j]
       ELSE IF m.cursor < 0 THEN Panic(m)
       ELSE m

SetExpandedAll(tree, b) == [n \in 1..Len(tree) |-> [tree[n] EXCEPT !.Expanded = b]]

\* expandAll(m.tree): every node is reachable from the root
expandAll(tree) == SetExpandedAll(tree, TRUE)

\* collapseAll that walks the children of the root only
collapseAll_BelowRoot(tree) ==
    [n \in 1..Len(tree) |-> [tree[n] EXCEPT !.Expanded = (n = 1 /\ tree[n].Expanded)]]

\* collapseAll(m.tree)
collapseAll(tree) == SetExpandedAll(tree, FALSE)

\* the pattern https?://[^\s]+ matches somewhere in s
MatchesURL(s) ==
    \E i \in 1..Len(s) :
        \E scheme \in {<<"h", "t", "t", "p", ":", "/", "/">>,
                       <<"h", "t", "t", "p", "s", ":", "/", "/">>} :
            /\ i + Len(scheme) <= Len(s)
            /\ SubSeq(s, i, i + Len(scheme) - 1) = scheme
            /\ ~IsSpace(s[i + Len(scheme)]) /\ s[i + Len(scheme)] # "\n"

\* extractURL(node) != ""
hasURL(n) ==
    LET valueStr == ValueStr(n.Value)
        keyLower == ToLower(n.Key)
    IN \/ n.Type = "string" /\ MatchesURL(valueStr)
       \/ /\ \/ Contains(keyLower, <<"u", "r", "l">>)
             \/ Contains(keyLower, <<"l", "i", "n", "k">>)
             \/ Contains(keyLower, <<"p", "e", "r", "m", "a", "l", "i", "n", "k">>)
             \/ Contains(keyLower, <<"h", "r", "e", "f">>)
          /\ MatchesURL(valueStr)

headerHeight == 3

footerHeight(m) == IF m.searchMode THEN 3 ELSE 2

\* the case with the cursor put back on the first entry
ExplorerResize_FromTop(m, w, h) ==
    SetContentRendered(
        [m EXCEPT !.width = w, !.height = h, !.cursor = 0,
                  !.viewport = [@ EXCEPT !.Width = w,
                                         !.Height = h - headerHeight - footerHeight(m)]])

\* case tea.WindowSizeMsg of JSONExplorerModel.Update
ExplorerResize(m, w, h) ==
    SetContentRendered(
        [m EXCEPT !.width = w, !.height = h,
                  !.viewport = [@ EXCEPT !.Width = w,
                                         !.Height = h - headerHeight - footerHeight(m)]])

\* case tea.KeyMsg of JSONExplorerModel.Update while m.searchMode
ExplorerSearchKey(m, k) ==
    CASE k \in {"esc", "ctrl+c"} -> [m EXCEPT !.searchMode = FALSE]
      [] k = "enter" ->
           SetContentRendered(applySearch(
               [m EXCEPT !.searchMode = FALSE,
                         !.searchQuery = m.searchInput.value,
                         !.filterActive = m.searchInput.value # <<>>]))
      [] OTHER -> [m EXCEPT !.searchInput = TextInputUpdate(@, k)]

\* the Expand case without m.flatNodes = flattenTree(m.tree)
ExplorerExpand_NoReflatten(m) ==
    IF ~(m.cursor < Len(m.flatNodes)) THEN m
    ELSE IF m.cursor < 0 THEN Panic(m)
    ELSE LET node == m.flatNodes[m.cursor + 1]
         IN IF hasURL(m.tree[node]) THEN m
            ELSE IF Len(m.tree[node].Children) > 0
            THEN SetContentRendered(
                     [m EXCEPT !.tree[node].Expanded = ~m.tree[node].Expanded])
            ELSE m

\* the Expand case
ExplorerExpand(m) ==
    IF ~(m.cursor < Len(m.flatNodes)) THEN m
    ELSE IF m.cursor < 0 THEN Panic(m)
    ELSE LET node == m.flatNodes[m.cursor + 1]
         IN IF hasURL(m.tree[node]) THEN m
            ELSE IF Len(m.tree[node].Children) > 0
            THEN SetContentRendered(Reflatten(
                     [m EXCEPT !.tree[node].Expanded = ~m.tree[node].Expanded]))
            ELSE m

\* the cursor moves to the collapsed parent
CursorToParent(flat, parent) ==
    ensureCursorVisible(SetContentRendered([flat EXCEPT !.cursor = flat.tree[parent].Index]))

\* the Collapse case without the line m.cursor = node.Parent.Index
ExplorerCollapse_KeepsCursor(m) ==
    IF ~(m.cursor < Len(m.flatNodes)) THEN m
    ELSE IF m.cursor < 0 THEN Panic(m)
    ELSE LET node == m.flatNodes[m.cursor + 1]
             parent == m.tree[node].Parent
         IN IF m.tree[node].Expanded
            THEN SetContentRendered(Reflatten([m EXCEPT !.tree[node].Expanded = FALSE]))
            ELSE IF parent # 0
            THEN ensureCursorVisible(SetContentRendered(
                     Reflatten([m EXCEPT !.tree[parent].Expanded = FALSE])))
            ELSE m

\* the Collapse case
ExplorerCollapse(m) ==
    IF ~(m.cursor < Len(m.flatNodes)) THEN m
    ELSE IF m.cursor < 0 THEN Panic(m)
    ELSE LET node == m.flatNodes[m.cursor + 1]
             parent == m.tree[node].Parent
         IN IF m.tree[node].Expanded
            THEN SetContentRendered(Reflatten([m EXCEPT !.tree[node].Expanded = FALSE]))
            ELSE IF parent # 0
            THEN CursorToParent(Reflatten([m EXCEPT !.tree[parent].Expanded = FALSE]), parent)
            ELSE m

\* the Copy and OpenURL cases only read the cursor node
ExplorerReadNode(m) ==
    IF m.cursor < Len(m.flatNodes) /\ m.cursor < 0 THEN Panic(m) ELSE m

\* a panic ends Update; otherwise the cursor is scrolled into view
VisibleUnlessPanicked(m) == IF m.panicked THEN m ELSE ensureCursorVisible(m)

\* a panic ends Update; otherwise the trailing SetContent runs
RenderedUnlessPanicked(m) == IF m.panicked THEN m ELSE SetContentRendered(m)

\* the switch of the normal mode, before the trailing SetContent
ExplorerNormalKey(m, k) ==
    LET len == Len(m.flatNodes)
        page == m.viewport.Height
        half == GoDiv(m.viewport.Height, 2)
    IN CASE k \in keyMap.Up ->
              IF m.cursor > 0 THEN ensureCursorVisible([m EXCEPT !.cursor = @ - 1]) ELSE m
         [] k \in keyMap.Down ->
              IF m.cursor < len - 1 THEN ensureCursorVisible([m EXCEPT !.cursor = @ + 1]) ELSE m
         [] k \in keyMap.GotoTop ->
              [m EXCEPT !.cursor = 0, !.viewport = GotoTop(@)]
         [] k \in keyMap.GotoBottom ->
              [m EXCEPT !.cursor = len - 1, !.viewport = GotoBottom(@)]
         [] k \in keyMap.PageDown ->
              ensureCursorVisible([m EXCEPT !.cursor = Min(m.cursor + page, len - 1)])
         [] k \in keyMap.PageUp ->
              ensureCursorVisible([m EXCEPT !.cursor = Max(m.cursor - page, 0)])
         [] k \in keyMap.HalfPageDown ->
              ensureCursorVisible([m EXCEPT !.cursor = Min(m.cursor + half, len - 1)])
         [] k \in keyMap.HalfPageUp ->
              ensureCursorVisible([m EXCEPT !.cursor = Max(m.cursor - half, 0)])
         [] k \in keyMap.Expand -> ExplorerExpand(m)
         [] k \in keyMap.Collapse -> ExplorerCollapse(m)
         [] k \in keyMap.ExpandAll ->
              SetContentRendered(Reflatten([m EXCEPT !.tree = expandAll(@)]))
         [] k \in keyMap.CollapseAll ->
              SetContentRendered(Reflatten([m EXCEPT !.tree = collapseAll(@)]))
         [] k \in keyMap.NextMatch ->
              VisibleUnlessPanicked(findNextMatch(m))
         [] k \in keyMap.PrevMatch ->
              VisibleUnlessPanicked(findPrevMatch(m))
         [] k \in keyMap.Copy -> ExplorerReadNode(m)
         [] k \in keyMap.OpenURL -> ExplorerReadNode(m)
         [] k \in keyMap.ClearSearch ->
              SetContentRendered(applySearch(
                  [m EXCEPT !.searchQuery = <<>>, !.filterActive = FALSE]))
         [] OTHER -> m

\* case tea.KeyMsg of JSONExplorerModel.Update
ExplorerKey(m, k) ==
    IF m.searchMode THEN ExplorerSearchKey(m, k)
    ELSE IF k \in keyMap.Quit THEN [m EXCEPT !.quitting = TRUE]
    ELSE IF k \in keyMap.Search THEN [m EXCEPT !.searchMode = TRUE]
    ELSE RenderedUnlessPanicked(ExplorerNormalKey(m, k))

\* JSONExplorerModel.Update; a message is a record with a type field
ExplorerUpdate(m, message) ==
    CASE message.type = "WindowSizeMsg" -> ExplorerResize(m, message.Width, message.Height)
      [] message.type = "KeyMsg" -> ExplorerKey(m, message.key)
      [] OTHER -> m

----------------------------------------------------------------------------
(* Messages, errors and pull requests                                      *)

KeyMsg(k) == [type |-> "KeyMsg", key |-> k]

WindowSizeMsg(w, h) == [type |-> "WindowSizeMsg", Width |-> w, Height |-> h]

\* the tick of the loading spinner; the frame the spinner shows is left out
TickMsg == [type |-> "spinner.TickMsg"]

Error(kind, number) == [kind |-> kind, pr |-> number]

NoErr == Error("nil", 0)

\* a PullRequestSummary: its number and its prefetched comments
PR(number, data) == [Number |-> number, CommentsJSON |-> data]

NoPR == PR(0, NoData)

NoConfig == [PRs |-> <<>>, failing |-> {}, set |-> FALSE]

\* NewJSONExplorerModel with its error result: JSONExplorerModel{} and the
\* error for a payload that does not decode
TryNewJSONExplorerModel(data) ==
    IF Unmarshal(data).err # ""
    THEN [model |-> ZeroExplorer, failure |-> Unmarshal(data).err]
    ELSE [model |-> NewJSONExplorerModel(data), failure |-> ""]

----------------------------------------------------------------------------
(* The PR selector.  The list is its items and the index of the selected   *)
(* item; filtering and paging of the list component are left out.          *)

NewList(items) == [items |-> items, index |-> 0, width |-> 0, height |-> 0]

\* list.Model.Update for the cursor keys
ListUpdate(l, message) ==
    IF message.type # "KeyMsg" THEN l
    ELSE CASE message.key \in {"up", "k"} -> [l EXCEPT !.index = Max(0, @ - 1)]
           [] message.key \in {"down", "j"} -> [l EXCEPT !.index = Min(Len(l.items) - 1, @ + 1)]
           [] message.key \in {"g", "home"} -> [l EXCEPT !.index = 0]
           [] message.key \in {"G", "end"} -> [l EXCEPT !.index = Max(0, Len(l.items) - 1)]
           [] OTHER -> l

\* NewPRSelectorModel
NewPRSelectorModel(prs) == [list |-> NewList(prs), choice |-> NoPR, quitting |-> FALSE]

\* PRSelectorModel.Update
SelectorUpdate(sel, message) ==
    CASE message.type = "WindowSizeMsg" ->
           [sel EXCEPT !.list.width = message.Width, !.list.height = message.Height]
      [] message.type = "KeyMsg" /\ message.key \in {"ctrl+c", "q", "esc"} ->
           [sel EXCEPT !.quitting = TRUE]
      [] message.type = "KeyMsg" /\ message.key = "enter" /\ Len(sel.list.items) > 0 ->
           [sel EXCEPT !.choice = sel.list.items[sel.list.index + 1], !.quitting = TRUE]
      [] OTHER -> [sel EXCEPT !.list = ListUpdate(@, message)]

----------------------------------------------------------------------------
(* The unified flow                                                        *)

ZeroFlow ==
    [state |-> "SelectingPR", prSelector |-> NewPRSelectorModel(<<>>),
     jsonExplorer |-> ZeroExplorer, selectedPR |-> NoPR, jsonData |-> NoData,
     err |-> NoErr, width |-> 0, height |-> 0, allowBack |-> FALSE,
     altScreenActive |-> FALSE, prefetchConfig |-> NoConfig,
     prefetchCancel |-> FALSE]

\* NewUnifiedFlowModel
NewUnifiedFlowModel(prs) ==
    [ZeroFlow EXCEPT !.state = "SelectingPR",
                     !.prSelector = NewPRSelectorModel(prs),
                     !.allowBack = TRUE]

\* NewUnifiedFlowWithPrefetch
NewUnifiedFlowWithPrefetch(config) ==
    [ZeroFlow EXCEPT !.state = "Loading", !.allowBack = TRUE,
                     !.prefetchCancel = TRUE,
                     !.prefetchConfig = [config EXCEPT !.set = TRUE]]

\* NewUnifiedFlowWithJSON for a payload that decodes
NewUnifiedFlowWithJSON(data) ==
    [ZeroFlow EXCEPT !.state = "ExploringJSON",
                     !.jsonExplorer = NewJSONExplorerModel(data),
                     !.jsonData = data,
                     !.allowBack = FALSE]

\* NewUnifiedFlowWithJSON with its error result: UnifiedFlowModel{} and the
\* error of NewJSONExplorerModel for a payload that does not decode
TryNewUnifiedFlowWithJSON(data) ==
    IF TryNewJSONExplorerModel(data).failure # ""
    THEN [model |-> ZeroFlow, failure |-> Error(TryNewJSONExplorerModel(data).failure, 0)]
    ELSE [model |-> NewUnifiedFlowWithJSON(data), failure |-> NoErr]

\* syncJSONExplorerSize that replays nothing
syncJSONExplorerSize_Nothing(m) == m

\* syncJSONExplorerSize
syncJSONExplorerSize(m) ==
    IF m.width = 0 \/ m.height = 0 THEN m
    ELSE [m EXCEPT !.jsonExplorer = ExplorerUpdate(@, WindowSizeMsg(m.width, m.height))]

Quit(m) == [m EXCEPT !.state = "Quitting"]

Fail(m, e) == [m EXCEPT !.err = e, !.state = "Quitting"]

\* the branch without the line m.jsonData = m.selectedPR.CommentsJSON
OpenChoice_NoJSONData(m) ==
    LET chosen == [m EXCEPT !.selectedPR = m.prSelector.choice]
        data == chosen.selectedPR.CommentsJSON
    IN IF data.kind \in {"empty", "nil"}
       THEN Fail(chosen, Error("no comments data prefetched", chosen.selectedPR.Number))
       ELSE IF Unmarshal(data).err # ""
       THEN Fail(chosen, Error(Unmarshal(data).err, 0))
       ELSE syncJSONExplorerSize(
                [chosen EXCEPT !.jsonExplorer = NewJSONExplorerModel(data),
                               !.state = "ExploringJSON"])

\* the branch without the test of the error of NewJSONExplorerModel
OpenChoice_NoDecodeCheck(m) ==
    LET chosen == [m EXCEPT !.selectedPR = m.prSelector.choice]
        data == chosen.selectedPR.CommentsJSON
    IN IF data.kind \in {"empty", "nil"}
       THEN Fail(chosen, Error("no comments data prefetched", chosen.selectedPR.Number))
       ELSE syncJSONExplorerSize(
                [chosen EXCEPT !.jsonExplorer = NewJSONExplorerModel(data),
                               !.jsonData = data,
                               !.state = "ExploringJSON"])

\* the selector reported a choice: open the explorer on its comments
OpenChoice(m) ==
    LET chosen == [m EXCEPT !.selectedPR = m.prSelector.choice]
        data == chosen.selectedPR.CommentsJSON
    IN IF data.kind \in {"empty", "nil"}
       THEN Fail(chosen, Error("no comments data prefetched", chosen.selectedPR.Number))
       ELSE IF Unmarshal(data).err # ""
       THEN Fail(chosen, Error(Unmarshal(data).err, 0))
       ELSE syncJSONExplorerSize(
                [chosen EXCEPT !.jsonExplorer = NewJSONExplorerModel(data),
                               !.jsonData = data,
                               !.state = "ExploringJSON"])

\* the test of m.prSelector.quitting after the selector handled the message
QuitWithSelector(m) ==
    IF m.prSelector.quitting
    THEN IF m.prSelector.choice # NoPR THEN OpenChoice(m) ELSE Quit(m)
    ELSE m

\* case StateSelectingPR of UnifiedFlowModel.Update
UpdateSelectingPR(m, message) ==
    IF message.type = "KeyMsg" /\ message.key = "ctrl+c" THEN Quit(m)
    ELSE QuitWithSelector([m EXCEPT !.prSelector = SelectorUpdate(@, message)])

\* the reset without the line m.prSelector.choice = nil
ResetSelector_KeepsChoice(sel) == [sel EXCEPT !.quitting = FALSE]

\* the reset of the selector on back navigation
ResetSelector(sel) == [sel EXCEPT !.quitting = FALSE, !.choice = NoPR]

\* the back-navigation branch of case StateExploringJSON
GoBack(m) ==
    [m EXCEPT !.state = "SelectingPR", !.jsonExplorer = ZeroExplorer,
              !.prSelector = ResetSelector(@)]

\* the test of m.jsonExplorer.quitting after the explorer handled the message
QuitWithExplorer(m) == IF m.jsonExplorer.quitting THEN Quit(m) ELSE m

\* case StateExploringJSON of UnifiedFlowModel.Update
UpdateExploringJSON(m, message) ==
    IF message.type = "KeyMsg" /\ m.allowBack /\ message.key = "q" THEN GoBack(m)
    ELSE QuitWithExplorer([m EXCEPT !.jsonExplorer = ExplorerUpdate(@, message)])

\* the case without the test len(msg.prs) == 0
PrefetchComplete_NoEmptyCheck(m, message) ==
    LET sel == NewPRSelectorModel(message.prs)
    IN [m EXCEPT !.prSelector = IF m.width > 0 /\ m.height > 0
                                  THEN SelectorUpdate(sel, WindowSizeMsg(m.width, m.height))
                                  ELSE sel,
                 !.state = "SelectingPR",
                 !.prefetchConfig = NoConfig,
                 !.altScreenActive = TRUE]

\* case prefetchCompleteMsg of case StateLoading
PrefetchComplete(m, message) ==
    IF Len(message.prs) = 0 THEN Fail(m, Error("no PRs with comments available", 0))
    ELSE LET sel == NewPRSelectorModel(message.prs)
         IN [m EXCEPT !.prSelector = IF m.width > 0 /\ m.height > 0
                                       THEN SelectorUpdate(sel, WindowSizeMsg(m.width, m.height))
                                       ELSE sel,
                      !.state = "SelectingPR",
                      !.prefetchConfig = NoConfig,
                      !.altScreenActive = TRUE]

\* case StateLoading of UnifiedFlowModel.Update
UpdateLoading(m, message) ==
    CASE message.type = "prefetchCompleteMsg" -> PrefetchComplete(m, message)
      [] message.type = "prefetchErrorMsg" -> Fail(m, message.err)
      [] OTHER -> m

\* Update without case StateQuitting: the message goes on to the selector
FlowUpdate_NoQuittingCase(m, message) ==
    LET sized == IF message.type = "WindowSizeMsg"
                 THEN [m EXCEPT !.width = message.Width, !.height = message.Height]
                 ELSE m
    IN CASE sized.state = "Loading" -> UpdateLoading(sized, message)
         [] sized.state = "ExploringJSON" -> UpdateExploringJSON(sized, message)
         [] OTHER -> UpdateSelectingPR(sized, message)

\* UnifiedFlowModel.Update
FlowUpdate(m, message) ==
    LET sized == IF message.type = "WindowSizeMsg"
                 THEN [m EXCEPT !.width = message.Width, !.height = message.Height]
                 ELSE m
    IN CASE sized.state = "SelectingPR" -> UpdateSelectingPR(sized, message)
         [] sized.state = "Loading" -> UpdateLoading(sized, message)
         [] sized.state = "ExploringJSON" -> UpdateExploringJSON(sized, message)
         [] OTHER -> sized

----------------------------------------------------------------------------
(* The prefetch command (startPrefetchCmd) for a configuration whose PRs   *)
(* are given.  config.failing is the set of PR numbers for which           *)
(* config.Fetcher.FetchComments returns an error.                          *)

maxWorkers == 4

\* one token per pull request: the limit without the cap of maxWorkers
workerLimit_Uncapped(n) == IF n = 0 THEN 1 ELSE n

\* workerLimit for n pull requests
workerLimit(n) ==
    LET limit == IF n < maxWorkers THEN n ELSE maxWorkers
    IN IF limit = 0 THEN 1 ELSE limit

NoMsg == [type |-> "none"]

prefetchCompleteMsg(prs, errs) == [type |-> "prefetchCompleteMsg", prs |-> prs, errs |-> errs]

prefetchErrorMsg(e) == [type |-> "prefetchErrorMsg", err |-> e]

EmptyResult == [pr |-> NoPR, warn |-> NoErr]

\* the payload MarshalJSON(BuildOutput(pr, payloads, normOpts), flat) yields
CommentsDoc(number) ==
    JObj(<< <<<<"p", "r">>, JNum(<<Digits[number + 1]>>)>>,
            <<<<"c", "o", "m", "m", "e", "n", "t", "s">>, JArr(<<>>)>> >>)

\* the result a worker records when FetchComments succeeded
FetchedResult(number) == [pr |-> PR(number, JSONBytes(CommentsDoc(number))), warn |-> NoErr]

\* the result a worker records when FetchComments or MarshalJSON failed
FailedResult(number) == [pr |-> NoPR, warn |-> Error("failed to fetch comments", number)]

\* the loop over results after prefetchGroup.Wait
RECURSIVE validPRs(_)
validPRs(res) ==
    IF res = <<>> THEN <<>>
    ELSE IF Head(res).warn # NoErr THEN validPRs(Tail(res))
    ELSE IF Head(res).pr # NoPR THEN <<Head(res).pr>> \o validPRs(Tail(res))
    ELSE validPRs(Tail(res))

RECURSIVE warnings(_)
warnings(res) ==
    IF res = <<>> THEN <<>>
    ELSE IF Head(res).warn # NoErr THEN <<Head(res).warn>> \o warnings(Tail(res))
    ELSE warnings(Tail(res))

\* the message startPrefetchCmd returns once prefetchGroup.Wait returned e
prefetchOutcome(e, res) ==
    IF e # NoErr THEN prefetchErrorMsg(e)
    ELSE prefetchCompleteMsg(validPRs(res), warnings(res))

ctxErr == Error("context canceled", 0)

NumPRs == Len(prefetchConfig.PRs)

Workers == 1..Len(pc)

\* the closure starts: an empty list is an error, else the results are allocated
CmdStart ==
    /\ cmdPc = "start"
    /\ IF NumPRs = 0
       THEN /\ outbox' = prefetchErrorMsg(Error("no pull requests found", 0))
            /\ cmdPc' = "done"
       ELSE /\ cmdPc' = "spawning"
            /\ outbox' = outbox
    /\ UNCHANGED <<flowVars, returned, ctxDone, groupCtxDone, groupErr, spawned, pc, sem, results>>

\* one prefetchGroup.Go call of the loop over prs
Spawn ==
    /\ cmdPc = "spawning"
    /\ spawned < NumPRs
    /\ spawned' = spawned + 1
    /\ pc' = [pc EXCEPT ![spawned + 1] = "select"]
    /\ UNCHANGED <<flowVars, returned, ctxDone, groupCtxDone, groupErr, sem, results, cmdPc, outbox>>

\* the select of a worker takes the case sem <- struct{}{}
Acquire(i) ==
    /\ pc[i] = "select"
    /\ sem < workerLimit(NumPRs)
    /\ sem' = sem + 1
    /\ pc' = [pc EXCEPT ![i] = "fetching"]
    /\ UNCHANGED <<flowVars, returned, ctxDone, groupCtxDone, groupErr, spawned, results, cmdPc, outbox>>

\* the select of a worker takes the case <-groupCtx.Done(): the worker
\* returns groupCtx.Err(), and the group keeps the first error
CtxReturn(i) ==
    /\ pc[i] = "select"
    /\ groupCtxDone
    /\ pc' = [pc EXCEPT ![i] = "returned"]
    /\ groupErr' = IF groupErr = NoErr THEN ctxErr ELSE groupErr
    /\ UNCHANGED <<flowVars, returned, ctxDone, groupCtxDone, spawned, sem, results, cmdPc, outbox>>

\* FetchComments can succeed for pull request number
CanSucceed(number) == number \notin prefetchConfig.failing

\* FetchComments can fail: the fetcher fails for it, or groupCtx is done
CanFail(number) == number \in prefetchConfig.failing \/ groupCtxDone

\* a worker that returns the error of a failed fetch instead of nil: the
\* group keeps it and cancels groupCtx
FetchReturn_ReturnsErr(i) ==
    /\ pc[i] = "fetching"
    /\ \E ok \in BOOLEAN :
          /\ IF ok THEN CanSucceed(prefetchConfig.PRs[i]) ELSE CanFail(prefetchConfig.PRs[i])
          /\ results' = [results EXCEPT ![i] =
                            IF ok THEN FetchedResult(prefetchConfig.PRs[i])
                            ELSE FailedResult(prefetchConfig.PRs[i])]
          /\ groupErr' = IF ~ok /\ groupErr = NoErr
                         THEN FailedResult(prefetchConfig.PRs[i]).warn ELSE groupErr
          /\ groupCtxDone' = (groupCtxDone \/ ~ok)
    /\ sem' = sem - 1
    /\ pc' = [pc EXCEPT ![i] = "returned"]
    /\ UNCHANGED <<flowVars, returned, ctxDone, spawned, cmdPc, outbox>>

\* a worker that records its result and returns without the deferred <-sem
FetchReturn_KeepsToken(i) ==
    /\ pc[i] = "fetching"
    /\ \E ok \in BOOLEAN :
          /\ IF ok THEN CanSucceed(prefetchConfig.PRs[i]) ELSE CanFail(prefetchConfig.PRs[i])
          /\ results' = [results EXCEPT ![i] =
                            IF ok THEN FetchedResult(prefetchConfig.PRs[i])
                            ELSE FailedResult(prefetchConfig.PRs[i])]
    /\ pc' = [pc EXCEPT ![i] = "returned"]
    /\ UNCHANGED <<flowVars, returned, ctxDone, groupCtxDone, groupErr, spawned, sem, cmdPc, outbox>>

\* the rest of a worker: record the result, give the token back, return nil
FetchReturn(i) ==
    /\ pc[i] = "fetching"
    /\ \E ok \in BOOLEAN :
          /\ IF ok THEN CanSucceed(prefetchConfig.PRs[i]) ELSE CanFail(prefetchConfig.PRs[i])
          /\ results' = [results EXCEPT ![i] =
                            IF ok THEN FetchedResult(prefetchConfig.PRs[i])
                            ELSE FailedResult(prefetchConfig.PRs[i])]
    /\ sem' = sem - 1
    /\ pc' = [pc EXCEPT ![i] = "returned"]
    /\ UNCHANGED <<flowVars, returned, ctxDone, groupCtxDone, groupErr, spawned, cmdPc, outbox>>

\* prefetchGroup.Wait that returns without waiting for the workers
WaitReturn_NoWait ==
    /\ cmdPc = "spawning"
    /\ spawned = NumPRs
    /\ groupCtxDone' = TRUE
    /\ outbox' = prefetchOutcome(groupErr, results)
    /\ cmdPc' = "done"
    /\ UNCHANGED <<flowVars, returned, ctxDone, groupErr, spawned, pc, sem, results>>

\* prefetchGroup.Wait returns when every worker has returned; it cancels
\* groupCtx, and the closure returns its message
WaitReturn ==
    /\ cmdPc = "spawning"
    /\ spawned = NumPRs
    /\ \A i \in Workers : pc[i] = "returned"
    /\ groupCtxDone' = TRUE
    /\ outbox' = prefetchOutcome(groupErr, results)
    /\ cmdPc' = "done"
    /\ UNCHANGED <<flowVars, returned, ctxDone, groupErr, spawned, pc, sem, results>>

\* config.Ctx is done (the deadline of the caller's context passes) while
\* the command runs; groupCtx is derived from it
CancelCtx ==
    /\ ~ctxDone
    /\ cmdPc \in {"start", "spawning"}
    /\ ctxDone' = TRUE
    /\ groupCtxDone' = TRUE
    /\ UNCHANGED <<flowVars, returned, groupErr, spawned, pc, sem, results, cmdPc, outbox>>

----------------------------------------------------------------------------
(* The program: the event loop hands one message at a time to Update.      *)

NotReturned == [done |-> FALSE, pr |-> NoPR, err |-> NoErr]

Returned(p, e) == [done |-> TRUE, pr |-> p, err |-> e]

Flow ==
    [state |-> state, prSelector |-> prSelector, jsonExplorer |-> jsonExplorer,
     selectedPR |-> selectedPR, jsonData |-> jsonData, err |-> err,
     width |-> width, height |-> height, allowBack |-> allowBack,
     altScreenActive |-> altScreenActive, prefetchConfig |-> prefetchConfig,
     prefetchCancel |-> prefetchCancel]

SetFlow(m) ==
    /\ state' = m.state
    /\ prSelector' = m.prSelector
    /\ jsonExplorer' = m.jsonExplorer
    /\ selectedPR' = m.selectedPR
    /\ jsonData' = m.jsonData
    /\ err' = m.err
    /\ width' = m.width
    /\ height' = m.height
    /\ allowBack' = m.allowBack
    /\ altScreenActive' = m.altScreenActive
    /\ prefetchConfig' = m.prefetchConfig
    /\ prefetchCancel' = m.prefetchCancel

Running == ~returned.done

\* the event loop keeps the model Update returned; a panic in Update ends
\* the program with an error and without a model
Updated(m) ==
    /\ SetFlow(m)
    /\ returned' = IF m.jsonExplorer.panicked
                   THEN Returned(NoPR, Error("program panic", 0))
                   ELSE returned

\* the event loop calls Update(message)
Handle(message) == Updated(FlowUpdate(Flow, message))

\* longest search text typed in the model
MaxInputLen == 1

TypedRunes == {"c", "q"}

\* the keys pressed in the explorer: one key of every binding of
\* DefaultKeyMap, the vi keys of the cursor, the typed characters and backspace
Keys ==
    {"up", "down", "k", "j", "pgup", "pgdown", "ctrl+u", "ctrl+d", "g", "G",
     "enter", "left", "E", "C", "/", "n", "N", "esc", "y", "o", "q", "ctrl+c",
     "?", "backspace"} \cup TypedRunes

SelectorKeys == {"up", "down", "g", "G", "enter", "o", "q", "esc", "ctrl+c"}

\* window sizes the terminal reports
WinSizes == {<<30, 7>>}

\* the keys the user is taken to press in the current state
Offered(k) ==
    CASE state = "SelectingPR" -> k \in SelectorKeys
      [] state = "ExploringJSON" /\ jsonExplorer.searchMode /\ k \in RuneKeys ->
            k \in TypedRunes /\ Len(jsonExplorer.searchInput.value) < MaxInputLen
      [] OTHER -> TRUE

\* a key press reaches Update
KeyPress(k) ==
    /\ Running
    /\ Offered(k)
    /\ Handle(KeyMsg(k))
    /\ UNCHANGED poolVars

\* a resize of the terminal reaches Update
Resize(w, h) ==
    /\ Running
    /\ Handle(WindowSizeMsg(w, h))
    /\ UNCHANGED poolVars

\* a tick of the spinner reaches Update while the spinner runs
Tick ==
    /\ Running
    /\ state = "Loading"
    /\ Handle(TickMsg)
    /\ UNCHANGED poolVars

\* the message of the prefetch command reaches Update
Deliver ==
    /\ Running
    /\ outbox # NoMsg
    /\ Handle(outbox)
    /\ outbox' = NoMsg
    /\ UNCHANGED <<ctxDone, groupCtxDone, groupErr, spawned, pc, sem, results, cmdPc>>

\* tea.Quit ends p.Run: RunUnifiedFlow / RunUnifiedFlowWithPrefetch return
\* the selected PR and the error, after calling prefetchCancel if set
Exit ==
    /\ Running
    /\ state = "Quitting"
    /\ returned' = Returned(selectedPR, err)
    /\ ctxDone' = (ctxDone \/ prefetchCancel)
    /\ groupCtxDone' = (groupCtxDone \/ prefetchCancel)
    /\ UNCHANGED <<flowVars, groupErr, spawned, pc, sem, results, cmdPc, outbox>>

----------------------------------------------------------------------------
(* Inputs                                                                  *)

\* {"a": "short", "b": {"c": [1, 2, 3]}}
DocExample(order) ==
    LET a == <<<<"a">>, JStr(<<"s", "h", "o", "r", "t">>)>>
        b == <<<<"b">>, JObj(<< <<<<"c">>, JArr(<<JNum(<<"1">>), JNum(<<"2">>), JNum(<<"3">>)>>)>> >>)>>
    IN JObj(IF order = 1 THEN <<a, b>> ELSE <<b, a>>)

\* {"body": " aaaa bbbb Cccc dddd ee ", "url": "http://x", "n": null}
DocBody ==
    JObj(<< <<<<"b", "o", "d", "y">>,
              JStr(<<" ", "a", "a", "a", "a", " ", "b", "b", "b", "b", " ", "C", "c", "c", "c",
                     " ", "d", "d", "d", "d", " ", "e", "e", " ">>)>>,
            <<<<"u", "r", "l">>, JStr(<<"h", "t", "t", "p", ":", "/", "/", "x">>)>>,
            <<<<"n">>, JNull>> >>)

\* {"k": {"c": true}}
DocSmall == JObj(<< <<<<"k">>, JObj(<< <<<<"c">>, JBool(TRUE)>> >>)>> >>)

\* {"links": ["http://x"]}
DocLinks ==
    JObj(<< <<<<"l", "i", "n", "k", "s">>,
              JArr(<<JStr(<<"h", "t", "t", "p", ":", "/", "/", "x">>)>>)>> >>)

ExplorerDocs == {DocExample(1), DocExample(2), DocBody, DocLinks}

FlowDocs == {DocSmall}

\* DocBody with the keys in the order "url", "n", "body" (the order of the
\* keys of a Go map is not fixed)
DocBodyLast == JObj(<<DocBody.kv[2], DocBody.kv[3], DocBody.kv[1]>>)

SearchDocs == {DocBody, DocBodyLast}

\* longest array of the documents of the match cycling
MaxMatchItems == 3

\* the arrays of the strings "c" and "a" up to that length
MatchDocs ==
    UNION {{JArr([i \in 1..n |-> JStr(<<f[i]>>)]) : f \in [1..n -> {"c", "a"}]} :
              n \in 1..MaxMatchItems}

\* longest string handed to wrapString
MaxWrapLen == 6

\* the strings of blanks, letters and hyphens up to that length
WrapStrings == UNION {[1..n -> {" ", "a", "-"}] : n \in 0..MaxWrapLen}

\* payloads of RunUnifiedFlow(nil, jsonData) that do not decode
RejectedPayloads == {MalformedBytes, EmptyBytes}

PRLists ==
    {<<PR(1, JSONBytes(DocSmall)), PR(2, MalformedBytes), PR(3, EmptyBytes)>>}

\* largest number of pull requests of a prefetch configuration
MaxPRs == 5

\* the fetcher fails for some of the first MaxFailing pull requests
MaxFailing == 3

PrefetchConfigs ==
    {[PRs |-> [i \in 1..n |-> i], failing |-> f, set |-> FALSE] :
        n \in 0..MaxPRs, f \in SUBSET (1..MaxFailing)}

----------------------------------------------------------------------------
(* Specifications                                                          *)

IdlePool ==
    /\ ctxDone = FALSE
    /\ groupCtxDone = FALSE
    /\ groupErr = NoErr
    /\ spawned = 0
    /\ pc = <<>>
    /\ sem = 0
    /\ results = <<>>
    /\ cmdPc = "none"
    /\ outbox = NoMsg

InitModel(m) ==
    /\ state = m.state
    /\ prSelector = m.prSelector
    /\ jsonExplorer = m.jsonExplorer
    /\ selectedPR = m.selectedPR
    /\ jsonData = m.jsonData
    /\ err = m.err
    /\ width = m.width
    /\ height = m.height
    /\ allowBack = m.allowBack
    /\ altScreenActive = m.altScreenActive
    /\ prefetchConfig = m.prefetchConfig
    /\ prefetchCancel = m.prefetchCancel

\* the program starts on the model m
InitFlow(m) ==
    /\ InitModel(m)
    /\ returned = NotReturned

\* RunUnifiedFlow(nil, jsonData) returns the error of NewUnifiedFlowWithJSON
\* before a program is started
InitRejected(data) ==
    /\ TryNewUnifiedFlowWithJSON(data).failure # NoErr
    /\ InitModel(TryNewUnifiedFlowWithJSON(data).model)
    /\ returned = Returned(NoPR, TryNewUnifiedFlowWithJSON(data).failure)

\* RunUnifiedFlow(prs, nil) and RunUnifiedFlow(nil, jsonData)
Init ==
    /\ \/ \E prs \in PRLists : InitFlow(NewUnifiedFlowModel(prs))
       \/ \E doc \in FlowDocs : InitFlow(NewUnifiedFlowWithJSON(JSONBytes(doc)))
       \/ \E data \in RejectedPayloads : InitRejected(data)
    /\ IdlePool

Next ==
    \/ \E k \in Keys : KeyPress(k)
    \/ \E sz \in WinSizes : Resize(sz[1], sz[2])
    \/ Exit

Spec == Init /\ [][Next]_vars

\* RunUnifiedFlow(nil, jsonData) on the larger documents
InitExplorer ==
    /\ \E doc \in ExplorerDocs : InitFlow(NewUnifiedFlowWithJSON(JSONBytes(doc)))
    /\ IdlePool

\* the keys that move the cursor and fold the tree
ExplorerKeys ==
    {"up", "down", "pgup", "pgdown", "ctrl+u", "ctrl+d", "g", "G", "enter",
     "left", "E", "C", "q"}

NextExplorer ==
    \/ \E k \in ExplorerKeys : KeyPress(k)
    \/ \E sz \in WinSizes : Resize(sz[1], sz[2])
    \/ Exit

SpecExplorer == InitExplorer /\ [][NextExplorer]_vars

\* RunUnifiedFlow(nil, jsonData) on a document with a value that wraps
InitSearch ==
    /\ \E doc \in SearchDocs : InitFlow(NewUnifiedFlowWithJSON(JSONBytes(doc)))
    /\ IdlePool

\* the keys of the search, of the cursor and of the folding; "c" is the
\* character typed into the search input
SearchKeys ==
    {"up", "down", "enter", "left", "/", "esc", "backspace", "n", "N", "ctrl+c", "c"}

NextSearch ==
    \/ \E k \in SearchKeys : KeyPress(k)
    \/ \E sz \in WinSizes : Resize(sz[1], sz[2])
    \/ Exit

SpecSearch == InitSearch /\ [][NextSearch]_vars

\* RunUnifiedFlow(nil, jsonData) on a document that is one string: every
\* render wraps the string with wrapString
InitWrap ==
    /\ \E s \in WrapStrings : InitFlow(NewUnifiedFlowWithJSON(JSONBytes(JStr(s))))
    /\ IdlePool

NextWrap == \E sz \in WinSizes : Resize(sz[1], sz[2])

SpecWrap == InitWrap /\ [][NextWrap]_vars

\* RunUnifiedFlowWithPrefetch(config), up to the end of the loading state
InitPrefetch ==
    /\ \E config \in PrefetchConfigs :
          /\ config.failing \subseteq Range(config.PRs)
          /\ InitFlow(NewUnifiedFlowWithPrefetch(config))
          /\ pc = [i \in 1..Len(config.PRs) |-> "idle"]
          /\ results = [i \in 1..Len(config.PRs) |-> EmptyResult]
    /\ ctxDone = FALSE
    /\ groupCtxDone = FALSE
    /\ groupErr = NoErr
    /\ spawned = 0
    /\ sem = 0
    /\ cmdPc = "start"
    /\ outbox = NoMsg

\* the keys pressed while the spinner shows
LoadingKeys == {"q", "esc", "ctrl+c", "enter"}

NextPrefetch ==
    \/ CmdStart
    \/ Spawn
    \/ \E i \in Workers : Acquire(i)
    \/ \E i \in Workers : CtxReturn(i)
    \/ \E i \in Workers : FetchReturn(i)
    \/ WaitReturn
    \/ CancelCtx
    \/ Deliver
    \/ \E k \in LoadingKeys : state = "Loading" /\ KeyPress(k)
    \/ \E sz \in WinSizes : state = "Loading" /\ Resize(sz[1], sz[2])
    \/ Tick
    \/ Exit

SpecPrefetch == InitPrefetch /\ [][NextPrefetch]_vars

\* RunUnifiedFlow(nil, jsonData) on an array of strings: the query c marks
\* the root and any subset of its elements
InitMatch ==
    /\ \E doc \in MatchDocs : InitFlow(NewUnifiedFlowWithJSON(JSONBytes(doc)))
    /\ IdlePool

\* the keys of the search and of the cursor
MatchKeys == {"up", "down", "left", "enter", "/", "c", "n", "N"}

NextMatching ==
    \/ \E k \in MatchKeys : KeyPress(k)
    \/ \E sz \in WinSizes : Resize(sz[1], sz[2])

SpecMatch == InitMatch /\ [][NextMatching]_vars

\* largest batch of the worker pool taken alone
MaxPoolPRs == 5

\* the batches of the worker pool taken alone: the fetcher fails for the
\* first pull request or for none
PoolConfigs ==
    {[PRs |-> [i \in 1..n |-> i], failing |-> f, set |-> FALSE] :
        n \in 0..MaxPoolPRs, f \in {{}, {1}}}

\* RunUnifiedFlowWithPrefetch(config) with no key pressed while the spinner
\* shows
InitPool ==
    /\ \E config \in PoolConfigs :
          /\ config.failing \subseteq Range(config.PRs)
          /\ InitFlow(NewUnifiedFlowWithPrefetch(config))
          /\ pc = [i \in 1..Len(config.PRs) |-> "idle"]
          /\ results = [i \in 1..Len(config.PRs) |-> EmptyResult]
    /\ ctxDone = FALSE
    /\ groupCtxDone = FALSE
    /\ groupErr = NoErr
    /\ spawned = 0
    /\ sem = 0
    /\ cmdPc = "start"
    /\ outbox = NoMsg

NextPool ==
    \/ CmdStart
    \/ Spawn
    \/ \E i \in Workers : Acquire(i)
    \/ \E i \in Workers : CtxReturn(i)
    \/ \E i \in Workers : FetchReturn(i)
    \/ WaitReturn
    \/ CancelCtx
    \/ Deliver

\* the scheduler of the Go runtime: a goroutine that can take a step takes
\* one, and every FetchComments call returns
FairPool ==
    /\ WF_vars(CmdStart)
    /\ WF_vars(Spawn)
    /\ WF_vars(WaitReturn)
    /\ \A i \in 1..MaxPoolPRs : WF_vars(i \in Workers /\ (Acquire(i) \/ CtxReturn(i)))
    /\ \A i \in 1..MaxPoolPRs : WF_vars(i \in Workers /\ FetchReturn(i))

SpecPoolFair == InitPool /\ [][NextPool]_vars /\ FairPool

----------------------------------------------------------------------------
(* Properties                                                              *)

ActiveStates == {"SelectingPR", "Loading", "ExploringJSON"}

\* C1 (as amended): a press of q in ExploringJSON, in a flow built with a
\* selector, moves the flow to SelectingPR, replaces the explorer by the
\* empty one and leaves the selector without quitting flag and without
\* choice; in a flow built from JSON alone the press moves the flow to
\* Quitting when the explorer is not editing its search input.
C1_BackNavigation ==
    [][(Running /\ state = "ExploringJSON" /\ Handle(KeyMsg("q")))
         => IF allowBack
            THEN /\ state' = "SelectingPR"
                 /\ jsonExplorer' = ZeroExplorer
                 /\ ~prSelector'.quitting
                 /\ prSelector'.choice = NoPR
            ELSE ~jsonExplorer.searchMode => state' = "Quitting"]_vars

\* the flow is back in the selector after a pull request had been opened
C1_Witness ==
    /\ state = "SelectingPR"
    /\ allowBack
    /\ selectedPR # NoPR
    /\ prSelector.choice = NoPR
    /\ ~prSelector.quitting

\* C1 as stated: in a flow built from JSON alone every press of q in
\* ExploringJSON moves the flow to Quitting (and in a flow with a selector
\* to SelectingPR with the selector reset).
C1_Original ==
    [][(Running /\ state = "ExploringJSON" /\ Handle(KeyMsg("q")))
         => IF allowBack
            THEN /\ state' = "SelectingPR"
                 /\ jsonExplorer' = ZeroExplorer
                 /\ ~prSelector'.quitting
                 /\ prSelector'.choice = NoPR
            ELSE state' = "Quitting"]_vars

\* C2: in every state but Quitting a ctrl+c key event moves the flow to
\* Quitting on that event.
C2_ForceQuit ==
    [][(Running /\ state \in ActiveStates /\ Handle(KeyMsg("ctrl+c")))
         => state' = "Quitting"]_vars

\* C3: while the explorer shows, 0 <= cursor < len(flatNodes).
C3_CursorBounds ==
    state = "ExploringJSON" =>
        /\ 0 <= jsonExplorer.cursor
        /\ jsonExplorer.cursor < Len(jsonExplorer.flatNodes)

\* the rows of the node under the cursor
CursorNode == jsonExplorer.tree[jsonExplorer.flatNodes[jsonExplorer.cursor + 1]]

\* C4: while the explorer shows and the cursor is on a node, the rows
\* PhysicalOffset .. PhysicalOffset+PhysicalLines-1 of that node lie within
\* the rows YOffset .. YOffset+Height-1 of the viewport.
C4_CursorVisible ==
    (state = "ExploringJSON" /\ InRange(jsonExplorer, jsonExplorer.cursor)) =>
        /\ jsonExplorer.viewport.YOffset <= CursorNode.PhysicalOffset
        /\ CursorNode.PhysicalOffset + CursorNode.PhysicalLines - 1
             <= jsonExplorer.viewport.YOffset + jsonExplorer.viewport.Height - 1

\* the workers that hold a token of sem
Fetching == {i \in Workers : pc[i] = "fetching"}

\* C5: the number of workers that hold a token never exceeds min(4, N).
C5_BoundedConcurrency ==
    /\ Cardinality(Fetching) <= 4
    /\ Cardinality(Fetching) <= Len(pc)

\* four of five workers fetch while the fifth waits for a token
C5_Witness ==
    /\ Len(pc) = 5
    /\ Cardinality(Fetching) = 4
    /\ \E i \in Workers : pc[i] = "select"

\* the pull requests of the batch whose fetch succeeds, in input order
ExpectedPRs ==
    LET ok == SelectSeq(prefetchConfig.PRs, LAMBDA number : number \notin prefetchConfig.failing)
    IN [k \in 1..Len(ok) |-> PR(ok[k], JSONBytes(CommentsDoc(ok[k])))]

\* one failure for every pull request whose fetch fails, in input order
ExpectedErrs ==
    LET bad == SelectSeq(prefetchConfig.PRs, LAMBDA number : number \in prefetchConfig.failing)
    IN [k \in 1..Len(bad) |-> Error("failed to fetch comments", bad[k])]

\* C6: a batch of at least one pull request that runs without cancellation
\* ends with the message that carries the fetched pull requests in input
\* order and one failure per failing pull request, whatever the order in
\* which the workers ran: no failure turns the batch into an error or keeps
\* another pull request from being fetched.
C6_OrderAndPartialFailure ==
    (cmdPc = "done" /\ ~ctxDone /\ outbox # NoMsg /\ Len(pc) > 0) =>
        outbox = prefetchCompleteMsg(ExpectedPRs, ExpectedErrs)

\* [1 ok, 2 fails, 3 ok] has been fetched: the message carries 1, 3 and one
\* failure
C6_Witness ==
    /\ outbox.type = "prefetchCompleteMsg"
    /\ ~ctxDone
    /\ Len(pc) = 3
    /\ prefetchConfig.failing = {2}
    /\ Len(outbox.prs) = 2
    /\ Len(outbox.errs) = 1

\* every pull request of the batch was fetched and every fetch failed
AllFailed ==
    /\ Len(results) > 0
    /\ \A i \in 1..Len(results) : results[i].warn # NoErr

Delivered == cmdPc = "done" /\ outbox = NoMsg

\* C7: once the message of a batch whose fetches all failed has reached
\* Update, the flow is in Quitting and its error is the failure of the first
\* pull request.
C7_AllFailedIsFatal ==
    (Delivered /\ groupErr = NoErr /\ AllFailed) =>
        /\ state = "Quitting"
        /\ err = results[1].warn

\* the failures the flow holds for its caller and its view
Reported == IF err = NoErr THEN {} ELSE {err}

\* C8: once the message of a batch with a fetched pull request and failures
\* has reached Update, the flow is past Loading without error, the selector
\* lists exactly the fetched pull requests and every failure is held by the
\* flow.
C8_FailuresAreWarnings ==
    (Delivered /\ groupErr = NoErr /\ Len(validPRs(results)) > 0) =>
        /\ state # "Loading"
        /\ prSelector.list.items = validPRs(results)
        /\ \A k \in 1..Len(warnings(results)) : warnings(results)[k] \in Reported

\* C9: once groupCtx is done no worker that holds no token starts to fetch.
C9_CancelStopsNewWork ==
    [][groupCtxDone =>
          \A i \in Workers : pc[i] # "fetching" => pc'[i] # "fetching"]_vars

\* C10: the error of the flow stays empty when the batch ended by
\* cancellation.
C10_CancelledIsNotAnError ==
    groupErr = ctxErr => err = NoErr

\* C11: what the run function hands to its caller at the end of the session
\* is a selected pull request without an error, or no pull request and no
\* error, or an error without a pull request: never a pull request together
\* with an error.
C11_OneOutcome ==
    returned.done => ~(returned.pr # NoPR /\ returned.err # NoErr)

\* the messages the event loop can hand to Update
Messages ==
    {KeyMsg(k) : k \in Keys}
        \cup {WindowSizeMsg(sz[1], sz[2]) : sz \in WinSizes}
        \cup {TickMsg,
              prefetchCompleteMsg(<<PR(1, JSONBytes(DocSmall))>>, <<>>),
              prefetchCompleteMsg(<<>>, <<>>),
              prefetchErrorMsg(Error("failed to fetch comments", 1))}

SameOutcome(u) ==
    /\ u.state = "Quitting"
    /\ u.selectedPR = selectedPR
    /\ u.err = err

\* C12: in state Quitting every message Update is handed leaves the flow in
\* Quitting with the same selected pull request and the same error.
C12_QuittingIsTerminal ==
    state = "Quitting" => \A message \in Messages : SameOutcome(FlowUpdate(Flow, message))

\* the flow has quit on the choice of a pull request without usable
\* comments and the program has not returned yet: messages still arrive
C12_Witness ==
    /\ state = "Quitting"
    /\ Running
    /\ selectedPR # NoPR
    /\ err # NoErr
    /\ width > 0

\* C13: a step taken in Loading leaves the flow in Loading unless it hands
\* the message of the prefetch command to Update; that message moves the
\* flow to SelectingPR with a selector of exactly the fetched pull requests
\* when it is a completion with at least one of them, and to Quitting with
\* the error recorded when it is a completion without any or an error.
C13_LoadingTransitions ==
    [][state = "Loading" =>
          IF outbox # NoMsg /\ outbox' = NoMsg
          THEN IF outbox.type = "prefetchCompleteMsg" /\ Len(outbox.prs) > 0
               THEN /\ state' = "SelectingPR"
                    /\ prSelector'.list.items = outbox.prs
                    /\ err' = NoErr
               ELSE /\ state' = "Quitting"
                    /\ err' = IF outbox.type = "prefetchErrorMsg"
                              THEN outbox.err
                              ELSE Error("no PRs with comments available", 0)
          ELSE state' = "Loading"]_vars

\* a batch with a failure has been delivered after a resize in Loading: the
\* selector shows the two pull requests that were fetched
C13_Witness ==
    /\ state = "SelectingPR"
    /\ cmdPc = "done"
    /\ outbox = NoMsg
    /\ width > 0
    /\ Len(results) = 3
    /\ prSelector.list.items = validPRs(results)
    /\ Len(prSelector.list.items) = 2

\* the pull request under the cursor of the selector
Highlighted == prSelector.list.items[prSelector.list.index + 1]

\* enter is pressed on a pull request whose comments decode
ChoosesAvailable ==
    /\ Len(prSelector.list.items) > 0
    /\ Highlighted.CommentsJSON.kind = "json"
    /\ Handle(KeyMsg("enter"))

\* enter is pressed on a pull request whose comments are empty or malformed
ChoosesUnavailable ==
    /\ Len(prSelector.list.items) > 0
    /\ Highlighted.CommentsJSON.kind # "json"
    /\ Handle(KeyMsg("enter"))

Cancels == Handle(KeyMsg("q")) \/ Handle(KeyMsg("esc"))

\* the explorer of the next state is the one built from the comments of p
ExploresCommentsOf(p) ==
    /\ state' = "ExploringJSON"
    /\ selectedPR' = p
    /\ jsonData' = p.CommentsJSON
    /\ jsonExplorer'.content = p.CommentsJSON
    /\ jsonExplorer'.flatNodes = NewJSONExplorerModel(p.CommentsJSON).flatNodes
    /\ Len(jsonExplorer'.tree) = Len(NewJSONExplorerModel(p.CommentsJSON).tree)

\* C14 as stated: enter on a pull request with available comments opens the
\* explorer on exactly these comments and records the pull request, q and esc
\* move to Quitting without error, and no other event leaves SelectingPR.
C14_Original ==
    [][(state = "SelectingPR" /\ Running) =>
          /\ ChoosesAvailable => ExploresCommentsOf(Highlighted)
          /\ Cancels => (state' = "Quitting" /\ err' = NoErr)
          /\ state' # "SelectingPR" => (ChoosesAvailable \/ Cancels)]_vars

\* C14: enter on a pull request with available comments opens the explorer
\* on exactly these comments and records the pull request, q and esc move to
\* Quitting without error, and the only other events that leave SelectingPR
\* are ctrl+c, to Quitting without error, and enter on a pull request whose
\* comments are empty or malformed, to Quitting with the error recorded.
C14_SelectingTransitions ==
    [][(state = "SelectingPR" /\ Running) =>
          /\ ChoosesAvailable => ExploresCommentsOf(Highlighted)
          /\ Cancels => (state' = "Quitting" /\ err' = NoErr)
          /\ state' # "SelectingPR" =>
                \/ ChoosesAvailable
                \/ Cancels
                \/ Handle(KeyMsg("ctrl+c")) /\ state' = "Quitting" /\ err' = NoErr
                \/ ChoosesUnavailable /\ state' = "Quitting" /\ err' # NoErr]_vars

\* the first pull request was chosen in the selector and its comments are
\* explored
C14_Witness ==
    /\ state = "ExploringJSON"
    /\ allowBack
    /\ selectedPR = PR(1, JSONBytes(DocSmall))
    /\ jsonExplorer.content = JSONBytes(DocSmall)

\* C15: a payload that does not decode gives no tree.  NewJSONExplorerModel
\* returns the error with the empty model and NewUnifiedFlowWithJSON returns
\* that error with no flow; an explorer that holds a tree, and the state
\* ExploringJSON, only exist for a payload that decodes; a flow whose
\* selected pull request has malformed or empty comments is in Quitting with
\* an error recorded and without a tree; a run that returned the decode error
\* never built a tree.
C15_MalformedNeverYieldsTree ==
    /\ \A data \in RejectedPayloads :
          /\ TryNewJSONExplorerModel(data).failure # ""
          /\ TryNewJSONExplorerModel(data).model = ZeroExplorer
          /\ TryNewUnifiedFlowWithJSON(data).failure = Error(TryNewJSONExplorerModel(data).failure, 0)
          /\ TryNewUnifiedFlowWithJSON(data).model = ZeroFlow
    /\ (state = "ExploringJSON" \/ jsonExplorer.tree # <<>>) =>
          jsonExplorer.content.kind = "json"
    /\ (selectedPR # NoPR /\ selectedPR.CommentsJSON.kind # "json") =>
          /\ state = "Quitting"
          /\ err # NoErr
          /\ jsonExplorer.tree = <<>>
    /\ returned.err.kind = "invalid JSON" =>
          /\ state # "ExploringJSON"
          /\ jsonExplorer.tree = <<>>

\* the pull request with malformed comments was chosen: the flow has quit
\* with the decode error and the program has returned it
C15_Witness ==
    /\ selectedPR = PR(2, MalformedBytes)
    /\ state = "Quitting"
    /\ err = Error("invalid JSON", 0)
    /\ returned.done

\* the flat entries renderTree writes, in their order
VisibleEntries == SelectSeq(jsonExplorer.flatNodes, LAMBDA node : Rendered(jsonExplorer, node))

\* the number of rows the value of a node wraps to at the width of the explorer
WrappedLines(node) ==
    Max(1, renderValueLines(jsonExplorer, node, prefixWidthOf(jsonExplorer.tree[node])))

OffsetsAccumulate(vis) ==
    \A i \in 1..Len(vis) :
        /\ jsonExplorer.tree[vis[i]].PhysicalLines >= 1
        /\ jsonExplorer.tree[vis[i]].PhysicalLines = WrappedLines(vis[i])
        /\ jsonExplorer.tree[vis[i]].PhysicalOffset =
              IF i = 1 THEN 0
              ELSE jsonExplorer.tree[vis[i - 1]].PhysicalOffset
                       + jsonExplorer.tree[vis[i - 1]].PhysicalLines

\* C16: in every state of the explorer the first rendered entry has
\* PhysicalOffset 0, every rendered entry has PhysicalLines of at least 1 and
\* equal to the number of rows its value wraps to, and the PhysicalOffset of a
\* rendered entry is the PhysicalOffset plus the PhysicalLines of the rendered
\* entry before it, also when the filter hides entries.
C16_PhysicalOffsets ==
    (state = "ExploringJSON" /\ ~jsonExplorer.panicked) => OffsetsAccumulate(VisibleEntries)

\* the filter hides the two entries between the root and a value of several
\* rows, which is rendered on the row after the root
C16_Witness ==
    /\ state = "ExploringJSON"
    /\ jsonExplorer.filterActive
    /\ Len(jsonExplorer.flatNodes) = 4
    /\ VisibleEntries = <<jsonExplorer.flatNodes[1], jsonExplorer.flatNodes[4]>>
    /\ jsonExplorer.tree[VisibleEntries[2]].PhysicalLines > 1
    /\ jsonExplorer.tree[VisibleEntries[2]].PhysicalOffset = 1
    /\ jsonExplorer.width = 30

\* C17: while the query of the explorer is empty no node of the tree is
\* marked as a match, whether it is in the flat list or hidden by a fold.
C17_EmptyQueryNoMatches ==
    (state = "ExploringJSON" /\ jsonExplorer.searchQuery = <<>>) =>
        \A n \in 1..Len(jsonExplorer.tree) : ~jsonExplorer.tree[n].Matches

\* the positions of the flat list whose node is marked as a match
MatchPositions ==
    {i \in 0..(Len(jsonExplorer.flatNodes) - 1) : FlatMatches(jsonExplorer, i)}

Least(S) == CHOOSE i \in S : \A j \in S : i <= j

Greatest(S) == CHOOSE i \in S : \A j \in S : i >= j

\* the nearest match after the cursor, the first match when there is none
\* after it, the cursor when nothing matches
NextMatchTarget ==
    LET later == {i \in MatchPositions : i > jsonExplorer.cursor}
    IN IF MatchPositions = {} THEN jsonExplorer.cursor
       ELSE IF later # {} THEN Least(later) ELSE Least(MatchPositions)

\* the nearest match before the cursor, the last match when there is none
\* before it, the cursor when nothing matches
PrevMatchTarget ==
    LET earlier == {i \in MatchPositions : i < jsonExplorer.cursor}
    IN IF MatchPositions = {} THEN jsonExplorer.cursor
       ELSE IF earlier # {} THEN Greatest(earlier) ELSE Greatest(MatchPositions)

CyclesTo(k, target) ==
    Handle(KeyMsg(k)) => (~jsonExplorer'.panicked /\ jsonExplorer'.cursor = target)

\* C18: in every state of the explorer outside the search input, n moves
\* the cursor to the nearest match after it, wrapping to the first match,
\* and N to the nearest match before it, wrapping to the last match; when
\* nothing matches the cursor stays; neither faults.
C18_MatchCycling ==
    [][(state = "ExploringJSON" /\ Running /\ ~jsonExplorer.searchMode) =>
          /\ CyclesTo("n", NextMatchTarget)
          /\ CyclesTo("N", PrevMatchTarget)]_vars

\* the node matches the query of the explorer by the test of applySearch
MatchesCurrentQuery(node) ==
    MatchesQuery(jsonExplorer.tree[node], ToLower(jsonExplorer.searchQuery))

RECURSIVE DescendantMatches(_)
DescendantMatches(node) ==
    \E k \in 1..Len(jsonExplorer.tree[node].Children) :
        \/ MatchesCurrentQuery(jsonExplorer.tree[node].Children[k])
        \/ DescendantMatches(jsonExplorer.tree[node].Children[k])

\* C19: while the filter is on with a query that is not empty, an entry of
\* the flat list is rendered exactly when it matches the query of the
\* explorer or one of its descendants does.
C19_FilterShowsMatches ==
    (/\ state = "ExploringJSON"
     /\ ~jsonExplorer.panicked
     /\ jsonExplorer.filterActive
     /\ jsonExplorer.searchQuery # <<>>) =>
        \A i \in 1..Len(jsonExplorer.flatNodes) :
            Rendered(jsonExplorer, jsonExplorer.flatNodes[i])
                <=> (\/ MatchesCurrentQuery(jsonExplorer.flatNodes[i])
                     \/ DescendantMatches(jsonExplorer.flatNodes[i]))

\* the explorer takes keys and the cursor is on an entry of the flat list
CanToggle ==
    /\ state = "ExploringJSON"
    /\ Running
    /\ ~jsonExplorer.searchMode
    /\ InRange(jsonExplorer, jsonExplorer.cursor)

\* in the explorer u the expanded flag of node is flipped and no other, the
\* flat list is the flattening of the new tree and the cursor is on node
FlipsExpanded(u, node) ==
    /\ \A n \in 1..Len(jsonExplorer.tree) :
          u.tree[n].Expanded =
              IF n = node THEN ~jsonExplorer.tree[n].Expanded ELSE jsonExplorer.tree[n].Expanded
    /\ u.flatNodes = flattenTree(u.tree)
    /\ u.cursor = jsonExplorer.cursor
    /\ u.flatNodes[u.cursor + 1] = node

\* in the explorer u no expanded flag and no entry of the flat list differs
KeepsFolding(u) ==
    /\ \A n \in 1..Len(jsonExplorer.tree) :
          u.tree[n].Expanded = jsonExplorer.tree[n].Expanded
    /\ u.flatNodes = jsonExplorer.flatNodes

\* the explorer after Update has handled the key k
AfterKey(k) == FlowUpdate(Flow, KeyMsg(k)).jsonExplorer

\* C20: toggleExpand on a cursor node with children flips its expanded
\* flag, re-flattens and keeps the cursor on the node; on a cursor node
\* without children it changes no expanded flag and not the flat list.
C20_ToggleExpand ==
    CanToggle =>
        \A k \in keyMap.Expand :
            IF Len(CursorNode.Children) > 0
            THEN FlipsExpanded(AfterKey(k), jsonExplorer.flatNodes[jsonExplorer.cursor + 1])
            ELSE KeepsFolding(AfterKey(k))

\* in the explorer u the node parent is collapsed and no other flag differs,
\* the flat list is the flattening of the new tree and the cursor is on the
\* entry of parent
CollapsesParent(u, parent) ==
    /\ \A n \in 1..Len(jsonExplorer.tree) :
          u.tree[n].Expanded =
              IF n = parent THEN FALSE ELSE jsonExplorer.tree[n].Expanded
    /\ u.flatNodes = flattenTree(u.tree)
    /\ InRange(u, u.cursor)
    /\ u.flatNodes[u.cursor + 1] = parent

\* the result u of the Collapse key on the cursor node
CollapsesOrGoesToParent(u) ==
    IF CursorNode.Expanded
    THEN FlipsExpanded(u, jsonExplorer.flatNodes[jsonExplorer.cursor + 1])
    ELSE IF CursorNode.Parent # 0
    THEN CollapsesParent(u, CursorNode.Parent)
    ELSE KeepsFolding(u) /\ u.cursor = jsonExplorer.cursor

\* C21: with the cursor on an entry, Left and h collapse an expanded cursor
\* node and keep the cursor on it; on a cursor node that is not expanded and
\* has a parent they collapse the parent and put the cursor on the entry of
\* the parent in the new flat list; on a collapsed root they change nothing.
C21_CollapseOrGotoParent ==
    CanToggle => \A k \in keyMap.Collapse : CollapsesOrGoesToParent(AfterKey(k))

\* in the example document the cursor has come to the collapsed b, whose
\* child c is collapsed and keeps the index it had when b was open
C21_Witness ==
    /\ state = "ExploringJSON"
    /\ jsonExplorer.content = JSONBytes(DocExample(1))
    /\ InRange(jsonExplorer, jsonExplorer.cursor)
    /\ CursorNode.Key = <<"b">>
    /\ ~CursorNode.Expanded
    /\ Len(jsonExplorer.flatNodes) = 3
    /\ jsonExplorer.cursor = 2

\* the keys of the entries of the flat list, in order (the root has key "")
FlatKeys ==
    [i \in 1..Len(jsonExplorer.flatNodes) |-> jsonExplorer.tree[jsonExplorer.flatNodes[i]].Key]

\* the explorer shows {"a": "short", "b": {"c": [1, 2, 3]}} with the keys of
\* the root in the given order
ShowsExample(order) ==
    /\ state = "ExploringJSON"
    /\ jsonExplorer.content = JSONBytes(DocExample(order))

\* the expanded flags are those of the auto-expand rule, but for the nodes
\* with a key of the set closed and those with a key of the set opened
FoldedAsBuilt(closed, opened) ==
    \A n \in 1..Len(jsonExplorer.tree) :
        jsonExplorer.tree[n].Expanded =
            \/ jsonExplorer.tree[n].Key \in opened
            \/ jsonExplorer.tree[n].Depth < 2 /\ jsonExplorer.tree[n].Key \notin closed

\* C22 as stated: with the expanded flags of the auto-expand rule the flat
\* list of the example is root, a, b, c, c[0], c[1], c[2], and with b
\* collapsed it is root, a, b.
C22_Original ==
    \A order \in {1, 2} :
        /\ (ShowsExample(order) /\ FoldedAsBuilt({}, {})) =>
              FlatKeys = <<<<>>, <<"a">>, <<"b">>, <<"c">>, IndexKey(0), IndexKey(1), IndexKey(2)>>
        /\ (ShowsExample(order) /\ FoldedAsBuilt({<<"b">>}, {})) =>
              FlatKeys = <<<<>>, <<"a">>, <<"b">>>>

\* C22: with the expanded flags of the auto-expand rule the array c, at
\* depth 2, is collapsed and the flat list of the example is root, a, b, c
\* when the decoder yields a before b and root, b, c, a when it yields b
\* first; with c expanded too the items c[0], c[1], c[2] follow c in that
\* order; with b collapsed the list is root, a, b or root, b, a.
C22_EndToEndExample ==
    /\ (ShowsExample(1) /\ FoldedAsBuilt({}, {})) =>
          FlatKeys = <<<<>>, <<"a">>, <<"b">>, <<"c">>>>
    /\ (ShowsExample(2) /\ FoldedAsBuilt({}, {})) =>
          FlatKeys = <<<<>>, <<"b">>, <<"c">>, <<"a">>>>
    /\ (ShowsExample(1) /\ FoldedAsBuilt({}, {<<"c">>})) =>
          FlatKeys = <<<<>>, <<"a">>, <<"b">>, <<"c">>, IndexKey(0), IndexKey(1), IndexKey(2)>>
    /\ (ShowsExample(2) /\ FoldedAsBuilt({}, {<<"c">>})) =>
          FlatKeys = <<<<>>, <<"b">>, <<"c">>, IndexKey(0), IndexKey(1), IndexKey(2), <<"a">>>>
    /\ (ShowsExample(1) /\ FoldedAsBuilt({<<"b">>}, {})) =>
          FlatKeys = <<<<>>, <<"a">>, <<"b">>>>
    /\ (ShowsExample(2) /\ FoldedAsBuilt({<<"b">>}, {})) =>
          FlatKeys = <<<<>>, <<"b">>, <<"a">>>>

\* b of the example has been collapsed, the other flags are as built
C22_Witness ==
    /\ ShowsExample(2)
    /\ FoldedAsBuilt({<<"b">>}, {})
    /\ jsonExplorer.cursor = 1
    /\ Len(jsonExplorer.flatNodes) = 3

\* the sizes of the resize events of the resize properties
ResizeSizes == {<<30, 7>>, <<12, 4>>, <<80, 24>>}

\* the explorer after the resize event of size sz
Resized(m, sz) == ExplorerUpdate(m, WindowSizeMsg(sz[1], sz[2]))

\* the explorer u has the cursor, the expanded flags, the query and the match
\* marks of the explorer of the state
KeepsPosition(u) ==
    /\ u.cursor = jsonExplorer.cursor
    /\ u.flatNodes = jsonExplorer.flatNodes
    /\ u.searchQuery = jsonExplorer.searchQuery
    /\ u.filterActive = jsonExplorer.filterActive
    /\ \A n \in 1..Len(jsonExplorer.tree) :
          /\ u.tree[n].Expanded = jsonExplorer.tree[n].Expanded
          /\ u.tree[n].Matches = jsonExplorer.tree[n].Matches

ResizeIdempotent(once, sz) == KeepsPosition(once) /\ Resized(once, sz) = once

\* C23: in every state of the explorer a resize event leaves the cursor, the
\* expanded flags, the query and the match marks as they are, and the same
\* event handled a second time leaves the explorer as the first left it.
C23_ResizeIdempotent ==
    (state = "ExploringJSON" /\ ~jsonExplorer.panicked) =>
        \A sz \in ResizeSizes : ResizeIdempotent(Resized(jsonExplorer, sz), sz)

\* the window was resized with the cursor on the last of four entries, a
\* query committed and the filter on
C23_Witness ==
    /\ state = "ExploringJSON"
    /\ jsonExplorer.width = 30
    /\ jsonExplorer.cursor = 3
    /\ jsonExplorer.filterActive
    /\ jsonExplorer.searchQuery = <<"c">>
    /\ jsonExplorer.viewport.YOffset > 0

\* largest width handed to wrapString by the properties
MaxWrapWidth == 8

\* the string the explorer shows
ShownString == jsonExplorer.content.value.s

ShowsString ==
    /\ state = "ExploringJSON"
    /\ jsonExplorer.content.kind = "json"
    /\ jsonExplorer.content.value.t = "string"

\* the words of a string: its maximal runs of characters that are no blanks
RECURSIVE WordsOf(_)
WordsOf(s) ==
    IF s = <<>> THEN <<>>
    ELSE IF IsSpace(Head(s)) THEN WordsOf(Tail(s))
    ELSE LET k == IF \A i \in 1..Len(s) : ~IsSpace(s[i]) THEN Len(s) + 1
                  ELSE CHOOSE i \in 1..Len(s) :
                           IsSpace(s[i]) /\ \A j \in 1..(i - 1) : ~IsSpace(s[j])
         IN <<SubSeq(s, 1, k - 1)>> \o WordsOf(SubSeq(s, k, Len(s)))

\* the first line starts with the leading blanks of s and the last line ends
\* with its trailing blanks
KeepsOuterBlanks(s, lines) ==
    /\ Len(lines) >= 1
    /\ LeadingBlanks(s) <= Len(lines[1])
    /\ SubSeq(lines[1], 1, LeadingBlanks(s)) = SubSeq(s, 1, LeadingBlanks(s))
    /\ TrailingBlanks(s) <= Len(lines[Len(lines)])
    /\ SubSeq(lines[Len(lines)], Len(lines[Len(lines)]) - TrailingBlanks(s) + 1,
              Len(lines[Len(lines)]))
          = SubSeq(s, Len(s) - TrailingBlanks(s) + 1, Len(s))

\* the lines hold the words of s, whole and in order
KeepsWords(s, lines) ==
    Concat([i \in 1..Len(lines) |-> WordsOf(lines[i])]) = WordsOf(s)

FlowAfterKey(k) == FlowUpdate(Flow, KeyMsg(k))

\* u is the explorer with nothing but the search input changed
OnlyInputDiffers(u) ==
    [u EXCEPT !.searchInput = jsonExplorer.searchInput] = jsonExplorer

\* u is the flow still exploring, the character k typed at the input position
\* and nothing else changed
OnlyEditsText(u, k) ==
    /\ u.state = "ExploringJSON"
    /\ OnlyInputDiffers(u.jsonExplorer)
    /\ u.jsonExplorer.searchInput.value
          = SubSeq(jsonExplorer.searchInput.value, 1, jsonExplorer.searchInput.pos)
            \o <<k>>
            \o SubSeq(jsonExplorer.searchInput.value, jsonExplorer.searchInput.pos + 1,
                      Len(jsonExplorer.searchInput.value))

\* the entries of the flat list of u carry the marks of the query q
MarkedFor(u, q) ==
    \A i \in 1..Len(u.flatNodes) :
        u.tree[u.flatNodes[i]].Matches = MatchesQuery(u.tree[u.flatNodes[i]], ToLower(q))

\* u keeps the cursor, the flat list and the expand state
KeepsCursorAndFolding(u) ==
    /\ u.cursor = jsonExplorer.cursor
    /\ KeepsFolding(u)

\* C25: in the explorer "/" enters search-edit mode; while editing, Enter
\* commits the typed text as the query (filter active exactly when the text is
\* not empty), recomputes the marks and leaves edit mode, and a character key
\* only edits the text; Escape in normal mode clears the query, deactivates
\* the filter and unmarks every visible entry.
C25_SearchKeys ==
    (state = "ExploringJSON" /\ ~jsonExplorer.panicked) =>
        /\ ~jsonExplorer.searchMode =>
              /\ FlowAfterKey("/").state = "ExploringJSON"
              /\ FlowAfterKey("/").jsonExplorer.searchMode
              /\ KeepsCursorAndFolding(FlowAfterKey("/").jsonExplorer)
        /\ jsonExplorer.searchMode =>
              /\ FlowAfterKey("enter").state = "ExploringJSON"
              /\ ~FlowAfterKey("enter").jsonExplorer.searchMode
              /\ FlowAfterKey("enter").jsonExplorer.searchQuery = jsonExplorer.searchInput.value
              /\ FlowAfterKey("enter").jsonExplorer.filterActive
                    = (jsonExplorer.searchInput.value # <<>>)
              /\ MarkedFor(FlowAfterKey("enter").jsonExplorer, jsonExplorer.searchInput.value)
              /\ KeepsCursorAndFolding(FlowAfterKey("enter").jsonExplorer)
              /\ \A k \in TypedRunes : OnlyEditsText(FlowAfterKey(k), k)
        /\ ~jsonExplorer.searchMode =>
              /\ FlowAfterKey("esc").state = "ExploringJSON"
              /\ FlowAfterKey("esc").jsonExplorer.searchQuery = <<>>
              /\ ~FlowAfterKey("esc").jsonExplorer.filterActive
              /\ MarkedFor(FlowAfterKey("esc").jsonExplorer, <<>>)
              /\ KeepsCursorAndFolding(FlowAfterKey("esc").jsonExplorer)

\* the command has handed its message to the event loop, or is about to
Completed == cmdPc = "done"

\* a step of a worker
WorkerStep == pc' # pc

\* the message of the batch is written once, when the command ends, and every
\* command that ends writes one
OneMessage ==
    /\ (outbox' # outbox /\ outbox' # NoMsg) => (~Completed /\ Completed')
    /\ (~Completed /\ Completed') => (outbox' # NoMsg /\ outbox = NoMsg)
    /\ Completed => Completed'

\* a worker writes its own result slot and nothing of the flow
OwnSlotOnly ==
    WorkerStep =>
        /\ flowVars' = flowVars
        /\ outbox' = outbox
        /\ \A i \in Workers :
              results'[i] # results[i] => (pc[i] = "fetching" /\ pc'[i] = "returned")

\* before the message has reached Update the flow shows nothing of the batch
NothingObservedEarly ==
    ~Delivered =>
        /\ state \in {"Loading", "Quitting"}
        /\ selectedPR = NoPR
        /\ prSelector = ZeroFlow.prSelector

\* the message is there only when every worker has returned, and it is the
\* outcome of the complete results
CompleteWhenSent ==
    (Completed /\ Len(pc) > 0) =>
        /\ \A i \in Workers : pc[i] = "returned"
        /\ outbox # NoMsg => outbox = prefetchOutcome(groupErr, results)

\* C26: each batch delivers one completion message, only after every worker
\* has returned; a worker writes only its own result slot and nothing of the
\* flow, so Update never sees a partly filled result set.
C26_OneShotCompletion ==
    /\ [](CompleteWhenSent /\ NothingObservedEarly)
    /\ [][OneMessage /\ OwnSlotOnly /\ (Completed => results' = results)]_vars

\* the message of a batch of five with a failure has reached Update and the
\* selector shows the four fetched pull requests
C26_Witness ==
    /\ Delivered
    /\ Len(pc) = 5
    /\ \A i \in Workers : pc[i] = "returned"
    /\ state = "SelectingPR"
    /\ Len(prSelector.list.items) = 4

\* a is a proper ancestor of n
RECURSIVE IsAncestor(_, _, _)
IsAncestor(tree, a, n) ==
    /\ tree[n].Parent # 0
    /\ (tree[n].Parent = a \/ IsAncestor(tree, a, tree[n].Parent))

\* n is reachable from the root through expanded nodes only
ReachableExpanded(tree, n) ==
    \A a \in 1..Len(tree) : IsAncestor(tree, a, n) => tree[a].Expanded

Position(flat, n) == CHOOSE i \in 1..Len(flat) : flat[i] = n

ReachableBelow(tree, n) ==
    {d \in 1..Len(tree) : IsAncestor(tree, n, d) /\ ReachableExpanded(tree, d)}

\* flat is the depth-first pre-order of the reachable nodes: the root first,
\* every reachable node once, the reachable nodes below a node right after
\* it, and the children of a node in their stored order
IsPreOrder(tree, flat) ==
    /\ Len(flat) >= 1
    /\ flat[1] = 1
    /\ Range(flat) = {n \in 1..Len(tree) : ReachableExpanded(tree, n)}
    /\ \A i, j \in 1..Len(flat) : flat[i] = flat[j] => i = j
    /\ \A i \in 1..Len(flat) :
          {flat[j] : j \in (i + 1)..Min(Len(flat), i + Cardinality(ReachableBelow(tree, flat[i])))}
             = ReachableBelow(tree, flat[i])
    /\ \A i \in 1..Len(flat) :
          tree[flat[i]].Expanded =>
              \A k, l \in 1..Len(tree[flat[i]].Children) :
                  k < l => Position(flat, tree[flat[i]].Children[k])
                             < Position(flat, tree[flat[i]].Children[l])

\* every node of flat carries its position
IsStamped(tree, flat) ==
    \A i \in 1..Len(flat) :
        /\ tree[flat[i]].Index = i - 1
        /\ tree[flat[i]].LineNumber = i

\* C27: the flat list of the explorer is the depth-first pre-order of the
\* nodes reachable from the root through expanded nodes, every node of it
\* carries Index = position and LineNumber = Index + 1, and flattening again
\* returns the same list and the same Index values.
C27_FlattenPreOrder ==
    (state = "ExploringJSON" /\ jsonExplorer.content.kind = "json") =>
        /\ IsPreOrder(jsonExplorer.tree, jsonExplorer.flatNodes)
        /\ IsStamped(jsonExplorer.tree, jsonExplorer.flatNodes)
        /\ flattenTree(jsonExplorer.tree) = jsonExplorer.flatNodes
        /\ flattenIndex(jsonExplorer.tree) = jsonExplorer.tree
        /\ flattenTree(flattenIndex(jsonExplorer.tree)) = jsonExplorer.flatNodes

\* a node that was expanded is hidden below its collapsed parent
C27_Witness ==
    /\ state = "ExploringJSON"
    /\ jsonExplorer.content.kind = "json"
    /\ \E n \in 1..Len(jsonExplorer.tree) :
          /\ jsonExplorer.tree[n].Expanded
          /\ Len(jsonExplorer.tree[n].Children) > 0
          /\ n \notin Range(jsonExplorer.flatNodes)
    /\ Len(jsonExplorer.flatNodes) > 1

\* the cursor is on a visible expanded node with children
OnExpandedNode ==
    /\ CanToggle
    /\ CursorNode.Expanded
    /\ Len(CursorNode.Children) > 0

\* the entries shown below the node under the cursor
ShownBelowCursor ==
    ReachableBelow(jsonExplorer.tree, jsonExplorer.flatNodes[jsonExplorer.cursor + 1])

\* the flat list after the key kc, and after the keys kc and ke
FlatAfter(kc) == FlowAfterKey(kc).jsonExplorer.flatNodes

FlatAfterBoth(kc, ke) == FlowUpdate(FlowAfterKey(kc), KeyMsg(ke)).jsonExplorer.flatNodes

\* C28: collapsing the visible expanded node under the cursor shortens the
\* flat list by the number of entries shown below it and keeps the others in
\* their order; expanding it again restores the flat list.
C28_CollapseThenExpand ==
    OnExpandedNode =>
        \A kc \in keyMap.Collapse :
            /\ Len(FlatAfter(kc)) = Len(jsonExplorer.flatNodes) - Cardinality(ShownBelowCursor)
            /\ FlatAfter(kc)
                  = SelectSeq(jsonExplorer.flatNodes, LAMBDA n : n \notin ShownBelowCursor)
            /\ \A ke \in keyMap.Expand : FlatAfterBoth(kc, ke) = jsonExplorer.flatNodes

IsScalar(n) == n.Type \notin {"object", "array"}

\* the query is a case-insensitive substring of the key of n, or of the
\* string form of its value when n is a scalar
MatchesByRule(n, q) ==
    \/ Contains(ToLower(n.Key), ToLower(q))
    \/ IsScalar(n) /\ Contains(ToLower(ValueStr(n.Value)), ToLower(q))

\* C29: while a query that is not empty is committed, an entry of the flat
\* list is marked as a match exactly when the query is a case-insensitive
\* substring of its key or of the string form of its scalar value; objects
\* and arrays match by key only, and entries shown by a later expand are
\* marked by the same rule.
C29_MatchPredicate ==
    (/\ state = "ExploringJSON"
     /\ ~jsonExplorer.panicked
     /\ jsonExplorer.searchQuery # <<>>) =>
        \A i \in 1..Len(jsonExplorer.flatNodes) :
            jsonExplorer.tree[jsonExplorer.flatNodes[i]].Matches
                <=> MatchesByRule(jsonExplorer.tree[jsonExplorer.flatNodes[i]],
                                  jsonExplorer.searchQuery)

\* the cursor moved by delta and clamped to the flat list of r
ClampedMove(r, delta) == Max(0, Min(r.cursor + delta, Len(r.flatNodes) - 1))

\* in r the key k moves the cursor by delta in the direction dir (1 down,
\* -1 up), clamped to the flat list
MovesClamped(r, k, delta, dir) ==
    /\ ExplorerUpdate(r, KeyMsg(k)).cursor = ClampedMove(r, dir * delta)
    /\ dir * (ExplorerUpdate(r, KeyMsg(k)).cursor - r.cursor) >= 0

PageMovesClamped(r) ==
    /\ \A k \in keyMap.PageDown : MovesClamped(r, k, r.viewport.Height, 1)
    /\ \A k \in keyMap.PageUp : MovesClamped(r, k, r.viewport.Height, -1)
    /\ \A k \in keyMap.HalfPageDown : MovesClamped(r, k, GoDiv(r.viewport.Height, 2), 1)
    /\ \A k \in keyMap.HalfPageUp : MovesClamped(r, k, GoDiv(r.viewport.Height, 2), -1)

\* C30: after a resize to any window size, page down and page up move the
\* cursor by the viewport height and the half-page keys by half of it, in the
\* named direction, and the cursor stays within the flat list.
C30_PageMovesClamped ==
    (CanToggle /\ ~jsonExplorer.panicked) =>
        \A sz \in ResizeSizes : PageMovesClamped(Resized(jsonExplorer, sz))

\* the explorer shows a decoded document
ShowsDocument ==
    /\ state = "ExploringJSON"
    /\ jsonExplorer.content.kind = "json"

\* the tree buildTree returns for the document of the explorer
BuiltTree == NewJSONExplorerModel(jsonExplorer.content).tree

\* the children of node n are one per key or element of its value, in the
\* order of the elements for an array, each one level deeper and with n as
\* its parent
ChildrenMirrorValue(tree, n) ==
    /\ Len(tree[n].Children) = ChildCount(tree[n].Value)
    /\ \A k, l \in 1..Len(tree[n].Children) :
          tree[n].Children[k] = tree[n].Children[l] => k = l
    /\ \A k \in 1..Len(tree[n].Children) :
          /\ tree[tree[n].Children[k]].Parent = n
          /\ tree[tree[n].Children[k]].Depth = tree[n].Depth + 1
    /\ tree[n].Value.t = "array" =>
          \A k \in 1..Len(tree[n].Children) :
              /\ tree[tree[n].Children[k]].Key = <<"[", Digits[k], "]">>
              /\ tree[tree[n].Children[k]].Value = tree[n].Value.items[k]
    /\ tree[n].Value.t = "object" =>
          \A j \in 1..Len(tree[n].Value.kv) :
              Cardinality({k \in 1..Len(tree[n].Children) :
                              /\ tree[tree[n].Children[k]].Key = tree[n].Value.kv[j][1]
                              /\ tree[tree[n].Children[k]].Value = tree[n].Value.kv[j][2]}) = 1

\* every node but the root is a child of exactly one node
OneParentEach(tree) ==
    /\ tree[1].Parent = 0
    /\ tree[1].Depth = 0
    /\ \A n \in 2..Len(tree) :
          Cardinality({p \in 1..Len(tree) :
                          \E k \in 1..Len(tree[p].Children) : tree[p].Children[k] = n}) = 1

KindOfValue(n) ==
    /\ n.Type \in {"object", "array", "string", "number", "bool", "null"}
    /\ n.Type = n.Value.t

\* C31: buildTree gives every node expanded = (depth < 2), every child the
\* depth of its parent plus one and the enclosing node as parent, one child
\* per object key and per array element (array children keyed [i] in index
\* order), and the kind of the JSON value.
C31_BuildTree ==
    ShowsDocument =>
        /\ BuiltTree[1].Value = jsonExplorer.content.value
        /\ BuiltTree[1].Key = <<>>
        /\ OneParentEach(BuiltTree)
        /\ \A n \in 1..Len(BuiltTree) :
              /\ BuiltTree[n].Expanded = (BuiltTree[n].Depth < 2)
              /\ ChildrenMirrorValue(BuiltTree, n)
              /\ KindOfValue(BuiltTree[n])
        /\ OneParentEach(jsonExplorer.tree)
        /\ \A n \in 1..Len(jsonExplorer.tree) :
              /\ ChildrenMirrorValue(jsonExplorer.tree, n)
              /\ KindOfValue(jsonExplorer.tree[n])

\* the tree of a document three levels deep, all of it shown
C31_Witness ==
    /\ ShowsDocument
    /\ Len(jsonExplorer.tree) = 7
    /\ Len(jsonExplorer.flatNodes) = 7
    /\ \E n \in 1..Len(jsonExplorer.tree) :
          jsonExplorer.tree[n].Depth = 3 /\ jsonExplorer.tree[n].Type = "number"

\* the explorer takes commands
TakesCommands ==
    /\ state = "ExploringJSON"
    /\ Running
    /\ ~jsonExplorer.searchMode
    /\ jsonExplorer.content.kind = "json"

\* in u every node carries the expanded flag b and nothing else of the tree
\* but the stamps of the flattening differs
AllSetTo(u, b) ==
    /\ Len(u.tree) = Len(jsonExplorer.tree)
    /\ \A n \in 1..Len(u.tree) :
          /\ u.tree[n].Expanded = b
          /\ u.tree[n].Children = jsonExplorer.tree[n].Children
          /\ u.tree[n].Parent = jsonExplorer.tree[n].Parent
          /\ u.tree[n].Key = jsonExplorer.tree[n].Key
          /\ u.tree[n].Value = jsonExplorer.tree[n].Value

\* C32: the ExpandAll command sets expanded on every node of the tree and
\* leaves every node in the flat list; the CollapseAll command clears it on
\* every node and leaves the root alone in the flat list.
C32_ExpandCollapseAll ==
    TakesCommands =>
        /\ \A k \in keyMap.ExpandAll :
              /\ AllSetTo(AfterKey(k), TRUE)
              /\ Range(AfterKey(k).flatNodes) = 1..Len(jsonExplorer.tree)
              /\ Len(AfterKey(k).flatNodes) = Len(jsonExplorer.tree)
        /\ \A k \in keyMap.CollapseAll :
              /\ AllSetTo(AfterKey(k), FALSE)
              /\ AfterKey(k).flatNodes = <<1>>
        /\ \A n \in 1..Len(jsonExplorer.tree) :
              /\ expandAll(jsonExplorer.tree)[n].Expanded
              /\ ~collapseAll(jsonExplorer.tree)[n].Expanded

\* ExpandAll has run on the document three levels deep: every node, the
\* leaves too, is expanded and in the flat list
C32_Witness ==
    /\ TakesCommands
    /\ Len(jsonExplorer.tree) = 7
    /\ \A n \in 1..Len(jsonExplorer.tree) : jsonExplorer.tree[n].Expanded
    /\ Len(jsonExplorer.flatNodes) = 7

\* the explorer edits its search text in a flow that allows going back
EditingWithBack ==
    /\ state = "ExploringJSON"
    /\ Running
    /\ allowBack
    /\ jsonExplorer.searchMode

\* C33: while the explorer edits its search text in a flow that allows
\* back navigation, a typed q goes to the search input: the flow stays in
\* ExploringJSON and keeps the explorer, its tree and its text.
C33_TypedQReachesInput ==
    EditingWithBack =>
        /\ FlowAfterKey("q").state = "ExploringJSON"
        /\ FlowAfterKey("q").jsonExplorer.tree = jsonExplorer.tree
        /\ FlowAfterKey("q").jsonExplorer.searchMode
        /\ Len(FlowAfterKey("q").jsonExplorer.searchInput.value)
              >= Len(jsonExplorer.searchInput.value)

\* the session ended in the selector without a choice: the user cancelled
\* there, at once or after coming back from the explorer
EndedByCancelInSelector ==
    /\ returned.done
    /\ allowBack
    /\ prSelector.choice = NoPR
    /\ jsonExplorer = ZeroExplorer

\* C34: a session that ends with a cancel in the selector reports no
\* selected pull request, also when a pull request had been explored and
\* left by back navigation before.
C34_CancelAfterBackReportsNothing ==
    EndedByCancelInSelector => returned.pr = NoPR

\* the entry under the cursor is in the flat list and is rendered
CursorOnRenderedEntry ==
    /\ InRange(jsonExplorer, jsonExplorer.cursor)
    /\ Rendered(jsonExplorer, jsonExplorer.flatNodes[jsonExplorer.cursor + 1])

\* C35: in every state of the explorer the cursor is on an entry that is
\* rendered: with the filter on, no cursor command and no commit of a query
\* leaves the cursor on an entry the filter hides.
C35_CursorOnRenderedEntry ==
    (state = "ExploringJSON" /\ ~jsonExplorer.panicked) => CursorOnRenderedEntry

\* C36: in every state of the explorer the flat list is the flattening of
\* the tree under its current expanded flags, and every entry of it carries
\* its position as Index: no command changes an expanded flag without
\* flattening again.
C36_FlatListNeverStale ==
    ShowsDocument =>
        /\ jsonExplorer.flatNodes = flattenTree(jsonExplorer.tree)
        /\ \A i \in 1..Len(jsonExplorer.flatNodes) :
              jsonExplorer.tree[jsonExplorer.flatNodes[i]].Index = i - 1

\* the cursor is on a node two levels deep that the Expand command opened:
\* its first child is in the flat list right after it
C36_Witness ==
    /\ ShowsDocument
    /\ InRange(jsonExplorer, jsonExplorer.cursor)
    /\ CursorNode.Depth = 2
    /\ CursorNode.Expanded
    /\ Len(CursorNode.Children) > 0
    /\ jsonExplorer.cursor + 2 <= Len(jsonExplorer.flatNodes)
    /\ jsonExplorer.flatNodes[jsonExplorer.cursor + 2] = CursorNode.Children[1]

\* a worker that leaves its fetch gives its token back, once, and returns
ReleasesOnce ==
    \A i \in Workers :
        (pc[i] = "fetching" /\ pc'[i] # "fetching") =>
            /\ pc'[i] = "returned"
            /\ sem' = sem - 1

\* the tokens taken are the tokens of the workers that fetch
TokensAccounted == sem = Cardinality(Fetching)

\* worker i does not wait for a token
NotWaiting(i) == i \notin Workers \/ pc[i] # "select"

\* C37: under fair scheduling, every fetch returning, a batch ends: a worker
\* that took a token gives it back exactly once, no worker waits for a token
\* for ever, and the command produces its message, also when the context is
\* cancelled while workers wait for a token.
C37_PrefetchTerminates ==
    /\ [][ReleasesOnce]_vars
    /\ [](TokensAccounted /\ (Completed => sem = 0))
    /\ \A i \in 1..MaxPoolPRs : (~NotWaiting(i)) ~> NotWaiting(i)
    /\ <>Completed

\* a batch of five has ended after a cancellation: a worker that waited for
\* a token returned the error of the context, another had fetched
C37_Witness ==
    /\ Completed
    /\ Len(pc) = 5
    /\ groupErr = ctxErr
    /\ sem = 0
    /\ \E i \in Workers : results[i].pr # NoPR
    /\ \E i \in Workers : results[i] = EmptyResult

\* the cursor is on a node without children that has a parent
OnLeafWithParent ==
    /\ CanToggle
    /\ Len(CursorNode.Children) = 0
    /\ CursorNode.Parent # 0

\* C38: on a node without children that has a parent, one Collapse command
\* collapses the parent and puts the cursor on the parent, at every depth.
C38_LeafCollapseGoesToParent ==
    OnLeafWithParent =>
        \A k \in keyMap.Collapse : CollapsesParent(AfterKey(k), CursorNode.Parent)

\* the flow stores the size of a window-size message in whatever state it
\* is, and no other message of the loading state changes the stored size
StoresLatestSize ==
    /\ \A sz \in ResizeSizes :
          /\ FlowUpdate(Flow, WindowSizeMsg(sz[1], sz[2])).width = sz[1]
          /\ FlowUpdate(Flow, WindowSizeMsg(sz[1], sz[2])).height = sz[2]
    /\ \A k \in LoadingKeys :
          /\ FlowAfterKey(k).width = width
          /\ FlowAfterKey(k).height = height
    /\ FlowUpdate(Flow, TickMsg).width = width
    /\ FlowUpdate(Flow, TickMsg).height = height

SizeKnown == width > 0 /\ height > 0

\* the selector made at the end of Loading has the stored size
SelectorSizedOnCreation ==
    (state = "Loading" /\ state' = "SelectingPR" /\ SizeKnown) =>
        /\ width' = width
        /\ height' = height
        /\ prSelector'.list.width = width
        /\ prSelector'.list.height = height

\* the explorer u.jsonExplorer made by the flow has the stored size
ExplorerSized(u) ==
    /\ u.jsonExplorer.width = width
    /\ u.jsonExplorer.height = height
    /\ u.jsonExplorer.viewport.Width = width
    /\ u.jsonExplorer.viewport.Height = height - headerHeight - footerHeight(u.jsonExplorer)

\* the explorer made when a pull request is chosen has the stored size
ExplorerSizedOnCreation ==
    (state = "SelectingPR" /\ SizeKnown /\ FlowAfterKey("enter").state = "ExploringJSON") =>
        ExplorerSized(FlowAfterKey("enter"))

\* C39: the stored width and height of the flow are those of the latest
\* window-size message in every state, and a selector or explorer the flow
\* makes once a size is known is given the stored size in the same step.
C39_WindowSizePropagation ==
    /\ [](StoresLatestSize /\ ExplorerSizedOnCreation)
    /\ [][SelectorSizedOnCreation]_vars

\* the selector made at the end of Loading after a resize: it has the size
\* of the window, and Enter opens an explorer
C39_Witness ==
    /\ state = "SelectingPR"
    /\ Delivered
    /\ width = 30
    /\ height = 7
    /\ prSelector.list.width = 30
    /\ Len(prSelector.list.items) >= 1
    /\ FlowAfterKey("enter").state = "ExploringJSON"
    /\ FlowAfterKey("enter").jsonExplorer.viewport.Width = 30

\* the cursor is on an entry of the flat list that is marked as a match
OnMatch ==
    /\ TakesCommands
    /\ ~jsonExplorer.panicked
    /\ InRange(jsonExplorer, jsonExplorer.cursor)
    /\ CursorNode.Matches

\* the cursor after the keys k1 and k2
CursorAfterBoth(k1, k2) == FlowUpdate(FlowAfterKey(k1), KeyMsg(k2)).jsonExplorer.cursor

\* C40: with the cursor on a matching entry, findNextMatch followed by
\* findPrevMatch brings the cursor back to that entry, and so does
\* findPrevMatch followed by findNextMatch.
C40_NextPrevInverse ==
    OnMatch =>
        /\ findPrevMatch(findNextMatch(jsonExplorer)).cursor = jsonExplorer.cursor
        /\ findNextMatch(findPrevMatch(jsonExplorer)).cursor = jsonExplorer.cursor
        /\ CursorAfterBoth("n", "N") = jsonExplorer.cursor
        /\ CursorAfterBoth("N", "n") = jsonExplorer.cursor

\* the cursor is on the last of three matches, an entry between them does
\* not match: the next match is found by wrapping around
C40_Witness ==
    /\ OnMatch
    /\ Len(jsonExplorer.flatNodes) = 4
    /\ jsonExplorer.cursor = 3
    /\ MatchPositions = {0, 1, 3}
    /\ findNextMatch(jsonExplorer).cursor = 0

====
